---- MODULE Spec2Model ----
(***************************************************************************)
(* Model of the Gateway session engine of HX Discord Status                *)
(* (src/discord.py, GatewayClient), its frame decoder and its reconnect    *)
(* policy.  One asyncio event loop runs the run() task, and per attempt a  *)
(* heartbeat task and a config-reload task; a step of the model is the     *)
(* code one task runs between two suspension points (await).               *)
(***************************************************************************)
EXTENDS Integers, Sequences, FiniteSets, TLC

----------------------------------------------------------------------------
(* Bounds of the model *)

\* cap on _reconnect_count when the attempt budget is unlimited (max = 0)
MaxReconnectCount == 10
\* largest sequence number the server puts in the "s" field
MaxSeq == 1
\* number of logical messages the decoder specification sends
MaxDecodeMsgs == 2

----------------------------------------------------------------------------
(* Program constants *)

\* dsclass.OpCode
DISPATCH == 0
HEARTBEAT == 1
IDENTIFY == 2
PRESENCE_UPDATE == 3
RESUME == 6
RECONNECT == 7
INVALID_SESSION == 9
HELLO == 10
HEARTBEAT_ACK == 11
\* an opcode _listen has no branch for (dsclass.OpCode.VOICE_STATE)
VOICE_STATE == 4

FATAL_CLOSE_CODES == {4004, 4013, 4014}
GATEWAY_URL == "wss://gateway.discord.gg/?v=9&encoding=json&compress=zlib-stream"
\* close code the client itself closes with (ws.close(4000))
LOCAL_CLOSE_CODE == 4000
\* ceiling of the backoff delay, seconds: min(delay * 1.5, 120)
DELAY_CEILING == 120
\* default of AppConfig.reconnect_delay
DEFAULT_RECONNECT_DELAY == 5
\* default heartbeat interval (41.25 s) and the one Hello announces, in ms
DEFAULT_HEARTBEAT_MS == 41250
HELLO_HEARTBEAT_MS == 45000

\* Python's None, for string-valued and integer-valued fields
None == "None"
NoSeq == -1
\* e.rcvd is None (connection lost without a close frame): code "?"
NoCode == 0

----------------------------------------------------------------------------
(* Exact rationals n/d with d > 0, for the float arithmetic of the backoff *)

Rat(n, d) == [n |-> n, d |-> d]
RInt(k) == Rat(k, 1)
RLess(a, b) == a.n * b.d < b.n * a.d
RLeq(a, b) == a.n * b.d <= b.n * a.d
REq(a, b) == a.n * b.d = b.n * a.d
RAdd(a, b) == Rat(a.n * b.d + b.n * a.d, a.d * b.d)
RMin(a, b) == IF RLeq(a, b) THEN a ELSE b
\* lowest terms for the fractions used here (denominators are powers of 2)
RECURSIVE RNorm(_)
RNorm(a) == IF a.d > 1 /\ a.n % 2 = 0 /\ a.d % 2 = 0
            THEN RNorm(Rat(a.n \div 2, a.d \div 2)) ELSE a

----------------------------------------------------------------------------
(* Messages.  An inbound message is the dictionary json.loads returns:      *)
(* op, s, t and the fields of d the client reads.                           *)
(* Record constructors list their fields in the order in which TLC keeps    *)
(* them, so that values shared between its workers are never reordered.     *)

Seqs == 1..MaxSeq

Msg(op, s, t, sid, url, d, hb) ==
    [d |-> d, op |-> op, s |-> s, t |-> t, session_id |-> sid,
     resume_gateway_url |-> url, heartbeat_interval |-> hb]

NoMsg == Msg(-1, NoSeq, None, None, None, None, 0)

OptSeqs == Seqs \cup {NoSeq}

\* d of READY: session_id and resume_gateway_url, either of which may be absent
ReadyMsgs ==
    LET ReadyPayloads == { <<"abc", "wss://resume.discord.gg">>, <<"xyz", None>>,
                           <<None, "wss://resume.discord.gg">> }
    IN  { Msg(DISPATCH, s, "READY", p[1], p[2], None, 0) :
            s \in OptSeqs, p \in ReadyPayloads }
ResumedMsgs == { Msg(DISPATCH, s, "RESUMED", None, None, None, 0) : s \in OptSeqs }
OtherDispatchMsgs ==
    { Msg(DISPATCH, s, "MESSAGE_CREATE", None, None, None, 0) : s \in OptSeqs }
DispatchMsgs == ReadyMsgs \cup ResumedMsgs \cup OtherDispatchMsgs
HeartbeatReqMsgs == { Msg(HEARTBEAT, s, None, None, None, None, 0) : s \in OptSeqs }
HeartbeatAckMsgs == { Msg(HEARTBEAT_ACK, s, None, None, None, None, 0) : s \in OptSeqs }
ReconnectMsgs == { Msg(RECONNECT, s, None, None, None, None, 0) : s \in OptSeqs }
\* d of InvalidSession: true, false, or absent (None)
InvalidSessionMsgs ==
    { Msg(INVALID_SESSION, s, None, None, None, d, 0) :
        s \in OptSeqs, d \in {"true", "false", None} }
HelloMsgs == { Msg(HELLO, s, None, None, None, None, HELLO_HEARTBEAT_MS) : s \in OptSeqs }
UnknownMsgs == { Msg(VOICE_STATE, s, None, None, None, None, 0) : s \in OptSeqs }

InMsgs == DispatchMsgs \cup HeartbeatReqMsgs \cup HeartbeatAckMsgs \cup ReconnectMsgs
          \cup InvalidSessionMsgs \cup HelloMsgs \cup UnknownMsgs

\* Outbound messages: op and the payload fields the properties read
Out(op, sid, seq) == [op |-> op, session_id |-> sid, seq |-> seq]

----------------------------------------------------------------------------
(* Frames and the frame decoder (_decode_message).                          *)
(* The JSON text of message m is the token sequence  { m }  ; a frame       *)
(* carries a piece of such a text.  For a binary frame, data is the         *)
(* plaintext that inflator.decompress returns for it and suffix says        *)
(* whether its last four bytes are ZLIB_SUFFIX.                             *)

Tok(kind, m) == [m |-> m, tok |-> kind]
LBrace == Tok("{", NoMsg)
RBrace == Tok("}", NoMsg)
Body(m) == Tok("body", m)
\* bytes that are no deflate data
Corrupt == Tok("corrupt", NoMsg)

Doc(m) == <<LBrace, Body(m), RBrace>>

Frame(bin, data, suffix) == [bin |-> bin, data |-> data, suffix |-> suffix]
TextFrame(m) == Frame(FALSE, Doc(m), FALSE)
BinFrame(m) == Frame(TRUE, Doc(m), TRUE)

Ret(kind, m) == [kind |-> kind, msg |-> m]
RetNone == Ret("none", NoMsg)
RetError == Ret("error", NoMsg)

\* json.loads: a dictionary for a complete JSON text, an exception otherwise
JsonLoads(buf) ==
    IF /\ Len(buf) = 3
       /\ buf[1] = LBrace
       /\ buf[2].tok = "body"
       /\ buf[3] = RBrace
    THEN Ret("msg", buf[2].m)
    ELSE RetError

\* self._inflator.decompress(raw): the plaintext of this fragment, or zlib.error
Decompress(raw) ==
    IF \E i \in 1..Len(raw.data) : raw.data[i] = Corrupt
    THEN [buf |-> <<>>, ok |-> FALSE]
    ELSE [buf |-> raw.data, ok |-> TRUE]

DecodeMessage(raw) ==
    IF raw.bin
    THEN LET z == Decompress(raw)
         IN  IF ~z.ok THEN RetError
             ELSE IF ~raw.suffix THEN RetNone
             ELSE JsonLoads(z.buf)
    ELSE JsonLoads(raw.data)

\* Frames the server may put on the wire of the session model: every message
\* as a text frame and as one complete binary frame, the two pieces of a
\* message split in two, and undecodable frames.
TextFrames(M) == { TextFrame(m) : m \in M }
BinFrames(M) == { BinFrame(m) : m \in M }
SplitHeadFrames == { Frame(TRUE, <<LBrace>>, FALSE) }
SplitTailFrames(M) == { Frame(TRUE, <<Body(m), RBrace>>, TRUE) : m \in M }
BadFrames == { Frame(TRUE, <<Corrupt>>, TRUE), Frame(FALSE, <<LBrace>>, FALSE) }
WireFrames == BinFrames(InMsgs) \cup TextFrames(HelloMsgs \cup HeartbeatAckMsgs)
              \cup SplitHeadFrames \cup SplitTailFrames(HeartbeatAckMsgs)
              \cup BadFrames

\* The wire frames by what _decode_message makes of them: no message yet,
\* an exception, or a message with a given opcode
IncompleteFrames == { raw \in WireFrames : DecodeMessage(raw).kind = "none" }
ErrorFrames == { raw \in WireFrames : DecodeMessage(raw).kind = "error" }
MessageFrames == { raw \in WireFrames : DecodeMessage(raw).kind = "msg" }
OpCodes == { m.op : m \in InMsgs }
FramesByOp ==
    [ op \in OpCodes |-> { raw \in MessageFrames : DecodeMessage(raw).msg.op = op } ]
\* opcodes _listen has a branch for
ListenOps == {DISPATCH, HEARTBEAT, HEARTBEAT_ACK, RECONNECT, INVALID_SESSION}
UnhandledFrames == UNION { FramesByOp[op] : op \in OpCodes \ ListenOps }

-----------------------------------------------------------------------------
(* The presence builder: build_activity and build_presence_payload.  A      *)
(* dictionary is a record of its possible keys with the set of the keys it  *)
(* has; the value of a key it has not is the empty one of its type.  Times  *)
(* are counted in half milliseconds, so that int(t * 1000) truncates.       *)

\* the placeholder of config.yml for application_id
PLACEHOLDER_APP_ID == "<placeholder ApplicationID>"

\* a key a configured button entry does not have
Missing == "<missing>"

Button(label, link) == [label |-> label, link |-> link]

\* values of the key buttons in config.yml
ButtonLists ==
    LET Button1 == Button("Website", "https://example.org")
        Button2 == Button("Source", "https://example.org/src")
        Button3 == Button("Third", "https://example.org/3")
        ButtonNoLabel == Button(Missing, "https://example.org/nolabel")
        ButtonNoUrl == Button("No link", Missing)
    IN  { <<>>, <<Button1>>, <<Button1, Button2>>, <<Button2, Button1, Button3>>,
          <<ButtonNoLabel>>, <<Button1, ButtonNoUrl>>,
          <<Button1, Button2, ButtonNoLabel>> }

\* a button list that is not cut
ConfigButtonsAll(raw) == raw

\* AppConfig.buttons: raw[:2]
ConfigButtons(raw) == SubSeq(raw, 1, IF Len(raw) < 2 THEN Len(raw) ELSE 2)

\* b["label"], b["url"]: KeyError for a key the entry does not have
HasKeys(b) == b.label # Missing /\ b.link # Missing

\* asset_map: None and {} resolve nothing
AssetMaps == { [n \in D |-> "555000111"] : D \in SUBSET {"logo"} }

\* resolve_image: the id of a known asset name, else the key as it is
ResolveImage(key, asset_map) ==
    IF key = "" THEN key
    ELSE IF key \in DOMAIN asset_map THEN asset_map[key]
    ELSE key

\* the values of the AppConfig properties that the builder reads
BuildConfigs ==
    [ game_name : {"Custom Game"},
      activity_type : {0},
      application_id : {"", PLACEHOLDER_APP_ID, "1234567890"},
      details : {"", "In a match"},
      state : {"", "Ranked"},
      large_image_key : {"", "logo"},
      large_image_text : {"", "Big"},
      small_image_key : {"", "987654321"},
      small_image_text : {"", "Small"},
      buttons_raw : ButtonLists,
      start_time_mode : {"auto", "custom", "none", "off"},
      custom_elapsed_minutes : {30},
      status : {"online"} ]

\* int(t * 1000) for a time t of h half milliseconds
IntMs(h) == h \div 2

\* minutes * 60 seconds, in half milliseconds
MinutesHalfMs(minutes) == minutes * 60 * 1000 * 2

Assets(keys, large_image, large_text, small_image, small_text) ==
    [ keys |-> keys, large_image |-> large_image, large_text |-> large_text,
      small_image |-> small_image, small_text |-> small_text ]

\* the assets dictionary of build_activity
BuildAssets(cfg, asset_map) ==
    Assets( {k \in {"large_image", "large_text", "small_image", "small_text"} :
               \/ k = "large_image" /\ cfg.large_image_key # ""
               \/ k = "large_text" /\ cfg.large_image_text # ""
               \/ k = "small_image" /\ cfg.small_image_key # ""
               \/ k = "small_text" /\ cfg.small_image_text # ""},
            ResolveImage(cfg.large_image_key, asset_map),
            cfg.large_image_text,
            ResolveImage(cfg.small_image_key, asset_map),
            cfg.small_image_text )

NoAssets == Assets({}, "", "", "", "")

\* a test that takes the placeholder for an identifier
RichPresenceAnyId(cfg) == cfg.application_id # ""

\* if app_id and app_id != <the placeholder>
RichPresence(cfg) ==
    cfg.application_id # "" /\ cfg.application_id # PLACEHOLDER_APP_ID

\* the keys of the activity dictionary
ActivityKeys(cfg, asset_map) ==
    {"name", "type"}
    \cup (IF RichPresence(cfg)
          THEN {"application_id"}
               \cup (IF cfg.details # "" THEN {"details"} ELSE {})
               \cup (IF cfg.state # "" THEN {"state"} ELSE {})
               \cup (IF BuildAssets(cfg, asset_map).keys # {} THEN {"assets"} ELSE {})
               \cup (IF ConfigButtons(cfg.buttons_raw) # <<>>
                     THEN {"buttons", "metadata"} ELSE {})
          ELSE {})
    \cup (IF cfg.start_time_mode \in {"auto", "custom"} THEN {"timestamps"} ELSE {})

\* a start timestamp taken from start_ts in every mode
StartTimestampAuto(cfg, start_ts, now) == IntMs(start_ts)

\* a start timestamp taken from the clock in mode auto as well
StartTimestampNow(cfg, start_ts, now) ==
    IF cfg.start_time_mode \in {"auto", "custom"}
    THEN IntMs(now - MinutesHalfMs(cfg.custom_elapsed_minutes))
    ELSE 0

\* timestamps.start: int(start_ts * 1000) in mode auto,
\* int((time.time() - minutes * 60) * 1000) in mode custom
StartTimestamp(cfg, start_ts, now) ==
    IF cfg.start_time_mode = "auto" THEN IntMs(start_ts)
    ELSE IF cfg.start_time_mode = "custom"
    THEN IntMs(now - MinutesHalfMs(cfg.custom_elapsed_minutes))
    ELSE 0

Activity(keys, name, type, application_id, details, state, assets, buttons, button_urls, start) ==
    [ application_id |-> application_id, details |-> details, state |-> state,
      keys |-> keys, name |-> name, type |-> type,
      assets |-> assets, buttons |-> buttons, button_urls |-> button_urls,
      start |-> start ]

NoActivity == Activity({}, "", 0, "", "", "", NoAssets, <<>>, <<>>, 0)

Built(kind, value) == [kind |-> kind, value |-> value]

\* build_activity: the dictionary, or the KeyError of a button entry
BuildActivity(cfg, start_ts, asset_map, now) ==
    LET rich == RichPresence(cfg)
        keys == ActivityKeys(cfg, asset_map)
        btns == ConfigButtons(cfg.buttons_raw)
    IN  IF rich /\ \E i \in 1..Len(btns) : ~HasKeys(btns[i])
        THEN Built("raise", NoActivity)
        ELSE Built("ok",
               Activity(keys, cfg.game_name, cfg.activity_type,
                        IF rich THEN cfg.application_id ELSE "",
                        IF "details" \in keys THEN cfg.details ELSE "",
                        IF "state" \in keys THEN cfg.state ELSE "",
                        IF "assets" \in keys THEN BuildAssets(cfg, asset_map)
                        ELSE NoAssets,
                        IF "buttons" \in keys
                        THEN [i \in 1..Len(btns) |-> btns[i].label] ELSE <<>>,
                        IF "metadata" \in keys
                        THEN [i \in 1..Len(btns) |-> btns[i].link] ELSE <<>>,
                        StartTimestamp(cfg, start_ts, now)))

Presence(activities, status) ==
    [ op |-> PRESENCE_UPDATE, status |-> status, activities |-> activities,
      since |-> 0, afk |-> FALSE ]

NoPresence == Presence(<<>>, "")

\* build_presence_payload: op 3 with the one activity
BuildPresencePayload(cfg, start_ts, asset_map, now) ==
    LET a == BuildActivity(cfg, start_ts, asset_map, now)
    IN  IF a.kind = "raise" THEN Built("raise", NoPresence)
        ELSE Built("ok", Presence(<<a.value>>, cfg.status))

NoCall == Built("none", NoPresence)

----------------------------------------------------------------------------
(* The configuration file: AppConfig._load, has_changed and reload *)

\* the placeholder of the sample configuration (ASCII stand-in)
PLACEHOLDER_TOKEN == "<placeholder Token>"

\* What yaml.safe_load makes of the file, or the file's state: "missing" (no
\* file), "malformed" (YAMLError), "null" (an empty document), "list" (a
\* non-empty top-level list), "dict" (a mapping with the keys that are not
\* Missing)
Document(kind, game_name, token) == [kind |-> kind, game_name |-> game_name, token |-> token]
Mappings ==
    { Document("dict", g, t) : g \in {Missing, "Custom Game", "Chess"},
                               t \in {Missing, "", PLACEHOLDER_TOKEN, "mfa.token"} }
Files ==
    { Document(k, Missing, Missing) : k \in {"missing", "malformed", "null", "list"} }
    \cup Mappings

\* yaml.safe_load(raw_text) or {}
SafeLoadOrEmpty(file) ==
    IF file.kind = "null" THEN Document("dict", Missing, Missing) ELSE file

\* json.dumps(raw, sort_keys=True): the items in the order of their keys
Dumps(raw) ==
    IF raw.kind # "dict" THEN <<<<raw.kind>>>>
    ELSE (IF raw.game_name # Missing THEN <<<<"game_name", raw.game_name>>>> ELSE <<>>)
         \o (IF raw.token # Missing THEN <<<<"token", raw.token>>>> ELSE <<>>)

\* self._raw.get(key, default)
RawGet(value, default) == IF value = Missing THEN default ELSE value

\* the strict test of _load: not token or token == placeholder
TokenRejected(raw) ==
    LET token == RawGet(raw.token, "") IN token = "" \/ token = PLACEHOLDER_TOKEN

\* _load(strict=True): self._raw is assigned as soon as the file is parsed,
\* the tests of its type and of the token come after, the hash last
Load(file, raw, hash) ==
    IF file.kind \in {"missing", "malformed"} THEN [raw |-> raw, hash |-> hash, exc |-> "ConfigError"]
    ELSE LET new == SafeLoadOrEmpty(file)
         IN  IF new.kind # "dict" THEN [raw |-> new, hash |-> hash, exc |-> "ConfigError"]
             ELSE IF TokenRejected(new) THEN [raw |-> new, hash |-> hash, exc |-> "ConfigError"]
             ELSE [raw |-> new, hash |-> Dumps(new), exc |-> "none"]

\* has_changed: any exception gives False
HasChanged(file, hash) ==
    IF file.kind \in {"missing", "malformed"} THEN FALSE
    ELSE Dumps(SafeLoadOrEmpty(file)) # hash

\* the values the properties of AppConfig return: self._raw.get(key, default),
\* which raises AttributeError when _raw is no mapping
Visible(raw) ==
    IF raw.kind # "dict" THEN [game_name |-> "AttributeError", token |-> "AttributeError"]
    ELSE [game_name |-> RawGet(raw.game_name, "Custom Game"), token |-> RawGet(raw.token, "")]

----------------------------------------------------------------------------
(* State of the session engine *)

VARIABLES
    running,            \* self._running
    pc,                 \* where the run() task is suspended
    ws,                 \* self._ws: "none", "open" or "closed"
    url,                \* run(): url, the endpoint being connected to (None once
                        \* the handshake of the attempt is over: the local is dead)
    reconnect_count,    \* self._reconnect_count
    max_reconnect,      \* self._max_reconnect
    delay,              \* run(): delay, seconds, a rational
    wait,               \* run(): wait, the retry sleep, a rational
    config,             \* self.config: the fields the engine reads
    session_id,         \* self._session_id
    sequence,           \* self._sequence
    resume_url,         \* self._resume_url
    heartbeat_interval, \* self._heartbeat_interval, in ms
    heartbeat_acked,    \* self._heartbeat_acked
    hb_pc,              \* heartbeat task: "none", "sleep", "closed"
    rl_pc,              \* config-reload task: "none", "sleep"
    \* what the last step did, and history of the current attempt
    inmsg,              \* message the last step handled, if that step was the
                        \* handling of a Hello or of an opcode _listen has a
                        \* branch for, HeartbeatAck excepted (NoMsg: none)
    out,                \* messages the last step sent, in order
    close_code,         \* close code that ended the attempt (NoClose: none)
    hb_unacked,         \* heartbeats sent on the open connection since the last ack
    established,        \* READY or RESUMED was received on this attempt
    fail_streak,        \* consecutive attempts ended without being established
    unresumable,        \* an unresumable InvalidSession was handled, and no
                        \* Identify/Resume has been sent since
    resumable,          \* a Reconnect or a resumable InvalidSession was handled
                        \* with a session id and a sequence stored, and no
                        \* Identify/Resume has been sent since
    ended,              \* why the attempt ended ("none": it has not)
    stop_saved,         \* stop() has called _save_elapsed_time
    inflator,           \* the decompression context in _inflator: "none", or
                        \* "current" (created for the open transport),
                        \* "stale" (created for a transport of an earlier
                        \* attempt), "misused" (a binary frame was decoded
                        \* with no context or with a stale one)
    app_id,             \* self.config.application_id
    asset_map,          \* self._asset_map: asset name -> asset id
    refreshes,          \* calls of fetch_app_assets since the transport of
                        \* the attempt was opened
    lookup,             \* what the last of them returned: "none" (no call),
                        \* "empty" (no asset, or the request failed), "found"
    \* state of the decoder specification
    dec_msg,            \* logical message on the wire (NoMsg: none)
    dec_rest,           \* its text not sent yet
    dec_sent,           \* logical messages delivered completely, in order
    dec_got,            \* what _decode_message returned, "not yet" left out
    dec_ret,            \* what the last call of _decode_message returned
    \* state of the presence builder specification
    b_config,           \* the configuration values build_activity reads
    b_start,            \* start_ts, in half milliseconds
    b_assets,           \* asset_map: asset name -> asset id
    b_now,              \* time.time(), in half milliseconds
    b_ticks,            \* how often the clock has advanced
    b_ret,              \* what the last call of build_presence_payload did
    b_prev,             \* what the call before it did
    \* state of the configuration file specification
    cf_file,            \* config.yml
    cf_raw,             \* AppConfig._raw
    cf_hash,            \* AppConfig._hash
    cf_changed,         \* has_changed() returned True and reload() is next
    cf_ret              \* what the last reload() returned ("none": no call)

engineVars == <<running, pc, ws, url, reconnect_count, max_reconnect, delay, wait,
                config, session_id, sequence, resume_url, heartbeat_interval,
                heartbeat_acked, hb_pc, rl_pc, inmsg, out, close_code,
                hb_unacked, established, fail_streak, unresumable, resumable,
                ended, stop_saved, inflator, app_id, asset_map, refreshes,
                lookup>>
assetVars == <<app_id, asset_map, refreshes, lookup>>
decVars == <<dec_msg, dec_rest, dec_sent, dec_got, dec_ret>>
buildVars == <<b_config, b_start, b_assets, b_now, b_ticks, b_ret, b_prev>>
fileVars == <<cf_file, cf_raw, cf_hash, cf_changed, cf_ret>>
vars == <<engineVars, decVars, buildVars, fileVars>>

NoClose == -1
\* hb_unacked counts up to here
HbCap == 3

\* configured values of reconnect_delay and max_reconnect_attempts
BaseDelays == {DEFAULT_RECONNECT_DELAY, 200}
MaxReconnects == {0, 2}
\* jitter = random.uniform(0, delay): 0, delay/2 or delay
JitterHalves == {0, 1, 2}
\* close codes of the server: normal closure, a non-fatal code, fatal codes
CloseCodes == {1000, LOCAL_CLOSE_CODE, NoCode} \cup FATAL_CLOSE_CODES

InitEngine ==
    /\ running = TRUE
    /\ pc = "connect"
    /\ ws = "none"
    /\ url = None
    /\ reconnect_count = 0
    /\ max_reconnect \in MaxReconnects
    /\ config \in [reconnect_delay : BaseDelays]
    /\ delay = RInt(config.reconnect_delay)
    /\ wait = RInt(0)
    /\ session_id = None
    /\ sequence = NoSeq
    /\ resume_url = None
    /\ heartbeat_interval = DEFAULT_HEARTBEAT_MS
    /\ heartbeat_acked = TRUE
    /\ hb_pc = "none"
    /\ rl_pc = "none"
    /\ inmsg = NoMsg
    /\ out = <<>>
    /\ close_code = NoClose
    /\ hb_unacked = 0
    /\ established = FALSE
    /\ fail_streak = 0
    /\ unresumable = FALSE
    /\ resumable = FALSE
    /\ ended = "none"
    /\ stop_saved = FALSE
    /\ inflator = "none"
    /\ app_id \in {"", PLACEHOLDER_APP_ID, "1234567890"}
    /\ asset_map = <<>>
    /\ refreshes = 0
    /\ lookup = "none"

InitDecoder ==
    /\ dec_msg = NoMsg
    /\ dec_rest = <<>>
    /\ dec_sent = <<>>
    /\ dec_got = <<>>
    /\ dec_ret = RetNone

\* the clock when the program starts, in half milliseconds
ClockStart == 20000001

\* start_ts: the program has just started, or auto_save_minutes put the
\* start an hour and a bit into the past
StartTimes == {ClockStart, ClockStart - 7200003}

\* the builder at rest: the default configuration, nothing is built
InitBuilder ==
    /\ b_config =
         [ game_name |-> "Custom Game", activity_type |-> 0, application_id |-> "",
           details |-> "", state |-> "", large_image_key |-> "",
           large_image_text |-> "", small_image_key |-> "", small_image_text |-> "",
           buttons_raw |-> <<>>, start_time_mode |-> "auto",
           custom_elapsed_minutes |-> 30, status |-> "online" ]
    /\ b_start = ClockStart
    /\ b_assets = <<>>
    /\ b_now = ClockStart
    /\ b_ticks = 0
    /\ b_ret = NoCall
    /\ b_prev = NoCall

\* the configuration as AppConfig() has loaded it from a file with a token
InitFile ==
    /\ cf_file = Document("dict", Missing, "mfa.token")
    /\ cf_raw = cf_file
    /\ cf_hash = Dumps(cf_raw)
    /\ cf_changed = FALSE
    /\ cf_ret = "none"

\* application_id is not configured
Init == InitEngine /\ app_id = "" /\ InitDecoder /\ InitBuilder /\ InitFile

----------------------------------------------------------------------------
(* The reconnect policy: GatewayClient.run *)

\* a connect that leaves the decompression context as it is
InflatorKept(ok) == inflator

\* self._inflator = zlib.decompressobj(), once the transport is open
InflatorAtConnect(ok) == IF ok THEN "current" ELSE inflator

\* the context once its attempt has ended
Retire(ctx) == IF ctx = "misused" THEN ctx ELSE "stale"

\* _decode_message(raw) with the context ctx, in a step that ends the attempt
\* (ends) or not: a binary frame goes through self._inflator.decompress, a
\* text frame does not touch the context
AfterDecode(raw, ctx, ends) ==
    IF raw.bin /\ ctx # "current" THEN "misused"
    ELSE IF ends THEN Retire(ctx) ELSE ctx

\* a choice of the default entry point whatever is stored
ConnectUrlDefault == GATEWAY_URL

\* url = self._resume_url or GATEWAY_URL
ConnectUrl == IF resume_url # None THEN resume_url ELSE GATEWAY_URL

\* growth without the ceiling
BackoffNoCeiling(d) == RNorm(Rat(d.n * 3, d.d * 2))

\* delay = min(delay * 1.5, 120)
Backoff(d) == RNorm(RMin(Rat(d.n * 3, d.d * 2), RInt(DELAY_CEILING)))

\* wait = delay + jitter, jitter = random.uniform(0, delay)
RetryWait(d, halves) == RNorm(RAdd(d, Rat(d.n * halves, d.d * 2)))

\* except ConnectionClosedError in run(): a fatal code clears _running
RunCloseHandler(code) == IF code \in FATAL_CLOSE_CODES THEN FALSE ELSE running

\* a budget test that takes 0 for a budget, not for "unlimited"
BudgetExceededAtZero(count) == count > max_reconnect

\* a budget test that gives up one failure early
BudgetExceededEarly(count) == max_reconnect > 0 /\ count >= max_reconnect

\* the budget test: self._max_reconnect > 0 and count > self._max_reconnect
BudgetExceeded(count) == max_reconnect > 0 /\ count > max_reconnect

\* fail_streak once an attempt has ended, est telling whether it was
\* established and code how it was closed: the number of consecutive attempts
\* that ended non-fatally without being established, counted up to
\* max_reconnect + 1 and only under a limited budget
StreakAfter(est, code) ==
    IF est \/ max_reconnect = 0 \/ code \in FATAL_CLOSE_CODES THEN 0
    ELSE IF fail_streak <= max_reconnect THEN fail_streak + 1
    ELSE fail_streak

\* an end of the attempt that leaves the two tasks as they are
EndAttemptKeepsTasks ==
    /\ pc' = "after"
    /\ ws' = "closed"
    /\ url' = None
    /\ UNCHANGED <<hb_pc, rl_pc>>
    /\ hb_unacked' = 0
    /\ fail_streak' = StreakAfter(established', close_code')

\* What the end of an attempt does to the tasks and the transport: _session's
\* finally cancels and awaits both tasks, "async with" closes the connection,
\* and run() goes on after its try statement.
EndAttempt ==
    /\ pc' = "after"
    /\ ws' = "closed"
    /\ url' = None
    /\ hb_pc' = "none"
    /\ rl_pc' = "none"
    /\ hb_unacked' = 0
    /\ fail_streak' = StreakAfter(established', close_code')

\* _refresh_assets fetches with this application_id
RealAppId(id) == id # "" /\ id # PLACEHOLDER_APP_ID

\* a cache that takes whatever the lookup returned
RefreshedMapAlways(mapping, cached) == mapping

\* if mapping: self._asset_map = mapping
RefreshedMap(mapping, cached) == IF mapping # <<>> THEN mapping ELSE cached

\* while self._running: websockets.connect(url) opens the transport or raises;
\* on the open transport _session starts: _refresh_assets returns at once
\* without a real application_id and else waits for fetch_app_assets
Connect(ok) ==
    /\ pc = "connect"
    /\ running
    /\ url' = ConnectUrl
    /\ inmsg' = NoMsg
    /\ out' = <<>>
    /\ close_code' = NoClose
    /\ established' = FALSE
    /\ hb_unacked' = 0
    /\ IF ok
       THEN /\ ws' = "open"
            /\ delay' = RInt(config.reconnect_delay)
            /\ reconnect_count' = 0
            /\ pc' = IF RealAppId(app_id) THEN "refresh" ELSE "hello"
            /\ refreshes' = 0
            /\ UNCHANGED fail_streak
       ELSE /\ pc' = "after"
            /\ fail_streak' = StreakAfter(FALSE, NoClose)
            /\ UNCHANGED <<ws, delay, reconnect_count, refreshes>>
    /\ UNCHANGED <<running, max_reconnect, wait, config, session_id, sequence,
                   resume_url, heartbeat_interval, heartbeat_acked, hb_pc, rl_pc,
                   unresumable>>
    /\ ended' = IF ok THEN "none" ELSE "connect_error"
    /\ UNCHANGED <<resumable, stop_saved>>
    /\ inflator' = InflatorAtConnect(ok)
    /\ UNCHANGED <<app_id, asset_map, lookup>>
    /\ UNCHANGED decVars
    /\ UNCHANGED buildVars
    /\ UNCHANGED fileVars

\* run() after the try statement: the _running test, the attempt count, the
\* budget test and the computation of the retry sleep
AfterAttempt(halves) ==
    /\ pc = "after"
    /\ inmsg' = NoMsg
    /\ out' = <<>>
    /\ url' = None
    /\ close_code' = NoClose
    /\ established' = FALSE
    /\ IF ~running
       THEN /\ pc' = "done"
            /\ UNCHANGED <<running, reconnect_count, wait>>
       ELSE /\ reconnect_count < MaxReconnectCount
            /\ reconnect_count' = reconnect_count + 1
            /\ IF BudgetExceeded(reconnect_count')
               THEN /\ running' = FALSE
                    /\ pc' = "done"
                    /\ UNCHANGED wait
               ELSE /\ wait' = RetryWait(delay, halves)
                    /\ pc' = "sleep"
                    /\ UNCHANGED running
    /\ UNCHANGED <<ws, max_reconnect, delay, config, session_id, sequence,
                   resume_url, heartbeat_interval, heartbeat_acked, hb_pc, rl_pc,
                   hb_unacked, fail_streak, unresumable>>
    /\ ended' = "none"
    /\ UNCHANGED <<resumable, stop_saved>>
    /\ UNCHANGED inflator
    /\ UNCHANGED assetVars
    /\ UNCHANGED decVars
    /\ UNCHANGED buildVars
    /\ UNCHANGED fileVars

\* await asyncio.sleep(wait) returns; delay = min(delay * 1.5, 120)
Wake ==
    /\ pc = "sleep"
    /\ delay' = Backoff(delay)
    /\ wait' = RInt(0)
    /\ pc' = "connect"
    /\ inmsg' = NoMsg
    /\ out' = <<>>
    /\ UNCHANGED <<running, ws, url, reconnect_count, max_reconnect, config,
                   session_id, sequence, resume_url, heartbeat_interval,
                   heartbeat_acked, hb_pc, rl_pc, close_code, hb_unacked,
                   established, fail_streak, unresumable>>
    /\ UNCHANGED <<resumable, ended, stop_saved>>
    /\ UNCHANGED inflator
    /\ UNCHANGED assetVars
    /\ UNCHANGED decVars
    /\ UNCHANGED buildVars
    /\ UNCHANGED fileVars

\* a stop that saves the elapsed time and leaves the run flag set
StopSavesOnly ==
    /\ pc \notin {"stopping", "done"}
    /\ UNCHANGED running
    /\ stop_saved' = TRUE
    /\ pc' = "stopping"
    /\ url' = None
    /\ wait' = RInt(0)
    /\ inmsg' = NoMsg
    /\ out' = <<>>
    /\ close_code' = NoClose
    /\ hb_unacked' = 0
    /\ established' = FALSE
    /\ fail_streak' = 0
    /\ unresumable' = FALSE
    /\ resumable' = FALSE
    /\ ended' = "none"
    /\ UNCHANGED <<ws, reconnect_count, max_reconnect, delay, config, session_id,
                   sequence, resume_url, heartbeat_interval, heartbeat_acked,
                   hb_pc, rl_pc>>
    /\ UNCHANGED inflator
    /\ UNCHANGED assetVars
    /\ UNCHANGED decVars
    /\ UNCHANGED buildVars
    /\ UNCHANGED fileVars

\* main._stop: client.stop() clears _running and saves the elapsed time,
\* then every task is cancelled (the cancellations are delivered later)
Stop ==
    /\ pc \notin {"stopping", "done"}
    /\ running' = FALSE
    /\ stop_saved' = TRUE
    /\ pc' = "stopping"
    /\ url' = None
    /\ wait' = RInt(0)
    /\ inmsg' = NoMsg
    /\ out' = <<>>
    /\ close_code' = NoClose
    /\ hb_unacked' = 0
    /\ established' = FALSE
    /\ fail_streak' = 0
    /\ unresumable' = FALSE
    /\ resumable' = FALSE
    /\ ended' = "none"
    /\ UNCHANGED <<ws, reconnect_count, max_reconnect, delay, config, session_id,
                   sequence, resume_url, heartbeat_interval, heartbeat_acked,
                   hb_pc, rl_pc>>
    /\ UNCHANGED inflator
    /\ UNCHANGED assetVars
    /\ UNCHANGED decVars
    /\ UNCHANGED buildVars
    /\ UNCHANGED fileVars

\* the cancellations are delivered: _session's finally awaits the two tasks,
\* "async with" closes the connection, run() leaves its loop on CancelledError
Cancelled ==
    /\ pc = "stopping"
    /\ pc' = "done"
    /\ ws' = IF ws = "open" THEN "closed" ELSE ws
    /\ hb_pc' = "none"
    /\ rl_pc' = "none"
    /\ UNCHANGED <<running, url, reconnect_count, max_reconnect, delay, wait, config,
                   session_id, sequence, resume_url, heartbeat_interval,
                   heartbeat_acked, inmsg, out, close_code, hb_unacked, established,
                   fail_streak, unresumable, resumable, ended, stop_saved,
                   inflator>>
    /\ UNCHANGED assetVars
    /\ UNCHANGED decVars
    /\ UNCHANGED buildVars
    /\ UNCHANGED fileVars

----------------------------------------------------------------------------
(* One attempt: GatewayClient._session, up to the dispatch loop *)

\* _refresh_assets: fetch_app_assets has returned mapping, which is {} (no
\* asset, or the request failed) or the assets of the application; _session
\* goes on to wait for the first frame
RefreshAssets(mapping) ==
    /\ pc = "refresh"
    /\ asset_map' = RefreshedMap(mapping, asset_map)
    /\ refreshes' = refreshes + 1
    /\ lookup' = IF mapping = <<>> THEN "empty" ELSE "found"
    /\ pc' = "hello"
    /\ inmsg' = NoMsg
    /\ out' = <<>>
    /\ UNCHANGED <<running, ws, url, reconnect_count, max_reconnect, delay, wait,
                   config, session_id, sequence, resume_url, heartbeat_interval,
                   heartbeat_acked, hb_pc, rl_pc, close_code, hb_unacked,
                   established, fail_streak, unresumable, resumable, ended,
                   stop_saved, inflator, app_id>>
    /\ UNCHANGED decVars
    /\ UNCHANGED buildVars
    /\ UNCHANGED fileVars

\* a test of the session id alone
UseResumeSessionOnly == session_id # None

\* if self._session_id and self._sequence is not None
UseResume == session_id # None /\ sequence # NoSeq

\* the payload of _send_resume, or of _send_identify
AuthMessage ==
    IF UseResume THEN Out(RESUME, session_id, sequence)
    ELSE Out(IDENTIFY, None, NoSeq)

\* _recv: self._ws.recv() raises ConnectionClosed; _recv returns None and
\* _session returns
HelloClosed(code) ==
    /\ pc = "hello"
    /\ inmsg' = NoMsg
    /\ out' = <<>>
    /\ close_code' = code
    /\ established' = FALSE
    /\ EndAttempt
    /\ UNCHANGED <<running, reconnect_count, max_reconnect, delay, wait, config,
                   session_id, sequence, resume_url, heartbeat_interval,
                   heartbeat_acked, unresumable>>
    /\ ended' = "no_hello"
    /\ UNCHANGED <<resumable, stop_saved>>
    /\ inflator' = Retire(inflator)
    /\ UNCHANGED assetVars
    /\ UNCHANGED decVars
    /\ UNCHANGED buildVars
    /\ UNCHANGED fileVars

\* an abort that sends Identify or Resume all the same
HelloAbortIdentifies(raw) ==
    /\ pc = "hello"
    /\ LET r == DecodeMessage(raw)
       IN  /\ r.kind # "msg" \/ r.msg.op # HELLO
           /\ inmsg' = NoMsg
    /\ out' = <<AuthMessage>>
    /\ established' = FALSE
    /\ UNCHANGED close_code
    /\ EndAttempt
    /\ UNCHANGED <<running, reconnect_count, max_reconnect, delay, wait, config,
                   session_id, sequence, resume_url, heartbeat_interval,
                   heartbeat_acked, unresumable>>
    /\ ended' = IF DecodeMessage(raw).kind = "msg" THEN "not_hello" ELSE "no_hello"
    /\ UNCHANGED <<resumable, stop_saved>>
    /\ inflator' = AfterDecode(raw, inflator, TRUE)
    /\ UNCHANGED assetVars
    /\ UNCHANGED decVars
    /\ UNCHANGED buildVars
    /\ UNCHANGED fileVars

\* the first frame is no message (incomplete or undecodable: _recv returns
\* None) or a message that is not Hello: _session returns
HelloAbort(raw) ==
    /\ pc = "hello"
    /\ LET r == DecodeMessage(raw)
       IN  /\ r.kind # "msg" \/ r.msg.op # HELLO
           /\ inmsg' = NoMsg
    /\ out' = <<>>
    /\ established' = FALSE
    /\ UNCHANGED close_code
    /\ EndAttempt
    /\ UNCHANGED <<running, reconnect_count, max_reconnect, delay, wait, config,
                   session_id, sequence, resume_url, heartbeat_interval,
                   heartbeat_acked, unresumable>>
    /\ ended' = IF DecodeMessage(raw).kind = "msg" THEN "not_hello" ELSE "no_hello"
    /\ UNCHANGED <<resumable, stop_saved>>
    /\ inflator' = AfterDecode(raw, inflator, TRUE)
    /\ UNCHANGED assetVars
    /\ UNCHANGED decVars
    /\ UNCHANGED buildVars
    /\ UNCHANGED fileVars

\* Hello received; Resume or Identify is sent and the two tasks are created
HelloAuth(raw) ==
    /\ pc = "hello"
    /\ LET r == DecodeMessage(raw)
       IN  /\ r.kind = "msg" /\ r.msg.op = HELLO
           /\ inmsg' = r.msg
           /\ heartbeat_interval' = r.msg.heartbeat_interval
    /\ heartbeat_acked' = TRUE
    /\ out' = <<AuthMessage>>
    /\ hb_pc' = "sleep"
    /\ rl_pc' = "sleep"
    /\ pc' = "listen"
    /\ url' = None
    /\ unresumable' = FALSE
    /\ UNCHANGED <<running, ws, reconnect_count, max_reconnect, delay, wait,
                   config, session_id, sequence, resume_url, close_code, hb_unacked,
                   established, fail_streak>>
    /\ resumable' = FALSE
    /\ UNCHANGED <<ended, stop_saved>>
    /\ inflator' = AfterDecode(raw, inflator, FALSE)
    /\ UNCHANGED assetVars
    /\ UNCHANGED decVars
    /\ UNCHANGED buildVars
    /\ UNCHANGED fileVars

\* Hello received, but the send of Resume/Identify raises ConnectionClosed,
\* which leaves _session and is handled by run()
HelloAuthClosed(raw, code) ==
    /\ pc = "hello"
    /\ LET r == DecodeMessage(raw)
       IN  /\ r.kind = "msg" /\ r.msg.op = HELLO
           /\ inmsg' = r.msg
           /\ heartbeat_interval' = r.msg.heartbeat_interval
    /\ heartbeat_acked' = TRUE
    /\ out' = <<>>
    /\ close_code' = code
    /\ running' = RunCloseHandler(code)
    /\ established' = FALSE
    /\ EndAttempt
    /\ UNCHANGED <<reconnect_count, max_reconnect, delay, wait, config,
                   session_id, sequence, resume_url, unresumable>>
    /\ ended' = "closed"
    /\ UNCHANGED <<resumable, stop_saved>>
    /\ inflator' = AfterDecode(raw, inflator, TRUE)
    /\ UNCHANGED assetVars
    /\ UNCHANGED decVars
    /\ UNCHANGED buildVars
    /\ UNCHANGED fileVars

----------------------------------------------------------------------------
(* The dispatch loop: GatewayClient._listen and _handle_dispatch *)

\* if seq is not None: self._sequence = seq
NewSequence(m) == IF m.s # NoSeq THEN m.s ELSE sequence

\* _update_presence: the payload is sent twice
UpdatePresence == <<Out(PRESENCE_UPDATE, None, NoSeq), Out(PRESENCE_UPDATE, None, NoSeq)>>

\* a heartbeat that carries no sequence
HeartbeatMessageNull(seq) == Out(HEARTBEAT, None, NoSeq)

\* _send_heartbeat: {"op": 1, "d": self._sequence}
HeartbeatMessage(seq) == Out(HEARTBEAT, None, seq)

\* a test that takes no session for resumable
NeverResumable(m) == FALSE

\* resumable = msg.get("d", False)
Resumable(m) == m.d = "true"

\* a handler that stops the run loop on any close
SessionCloseHandlerAnyCode(code) == FALSE

\* except ConnectionClosed in _session: a fatal code clears _running
SessionCloseHandler(code) == IF code \in FATAL_CLOSE_CODES THEN FALSE ELSE running

CountHeartbeat == IF hb_unacked < HbCap THEN hb_unacked + 1 ELSE hb_unacked

Listening == pc = "listen" /\ ws = "open"

\* a binary frame without the marker: _decode_message returns None, continue
ListenIncomplete(raw) ==
    /\ Listening
    /\ DecodeMessage(raw).kind = "none"
    /\ inmsg' = NoMsg
    /\ out' = <<>>
    /\ UNCHANGED <<running, pc, ws, url, reconnect_count, max_reconnect, delay, wait,
                   config, session_id, sequence, resume_url, heartbeat_interval,
                   heartbeat_acked, hb_pc, rl_pc, close_code, hb_unacked,
                   established, fail_streak, unresumable>>
    /\ UNCHANGED <<resumable, ended, stop_saved>>
    /\ inflator' = AfterDecode(raw, inflator, FALSE)
    /\ UNCHANGED assetVars
    /\ UNCHANGED decVars
    /\ UNCHANGED buildVars
    /\ UNCHANGED fileVars

\* _decode_message raises (zlib.error, JSONDecodeError): the exception leaves
\* _listen and _session and is logged by run()'s except Exception
ListenDecodeError(raw) ==
    /\ Listening
    /\ DecodeMessage(raw).kind = "error"
    /\ inmsg' = NoMsg
    /\ out' = <<>>
    /\ close_code' = NoClose
    /\ UNCHANGED established
    /\ EndAttempt
    /\ UNCHANGED <<running, reconnect_count, max_reconnect, delay, wait, config,
                   session_id, sequence, resume_url, heartbeat_interval,
                   heartbeat_acked, unresumable>>
    /\ ended' = "decode_error"
    /\ UNCHANGED <<resumable, stop_saved>>
    /\ inflator' = AfterDecode(raw, inflator, TRUE)
    /\ UNCHANGED assetVars
    /\ UNCHANGED decVars
    /\ UNCHANGED buildVars
    /\ UNCHANGED fileVars

\* op 0: _handle_dispatch
ListenDispatch(raw) ==
    /\ Listening
    /\ LET r == DecodeMessage(raw)
       IN  /\ r.kind = "msg" /\ r.msg.op = DISPATCH
           /\ inmsg' = r.msg
           /\ sequence' = NewSequence(r.msg)
           /\ IF r.msg.t = "READY"
              THEN /\ session_id' = r.msg.session_id
                   /\ resume_url' = r.msg.resume_gateway_url
                   /\ out' = UpdatePresence
                   /\ established' = TRUE
              ELSE IF r.msg.t = "RESUMED"
              THEN /\ out' = UpdatePresence
                   /\ established' = TRUE
                   /\ UNCHANGED <<session_id, resume_url>>
              ELSE /\ out' = <<>>
                   /\ UNCHANGED <<session_id, resume_url, established>>
    /\ UNCHANGED <<running, pc, ws, url, reconnect_count, max_reconnect, delay, wait,
                   config, heartbeat_interval, heartbeat_acked, hb_pc, rl_pc,
                   close_code, hb_unacked, fail_streak, unresumable>>
    /\ UNCHANGED <<resumable, ended, stop_saved>>
    /\ inflator' = AfterDecode(raw, inflator, FALSE)
    /\ UNCHANGED assetVars
    /\ UNCHANGED decVars
    /\ UNCHANGED buildVars
    /\ UNCHANGED fileVars

\* a dispatch loop that marks the requested heartbeat as unacknowledged
ListenHeartbeatMarks(raw) ==
    /\ Listening
    /\ LET r == DecodeMessage(raw)
       IN  /\ r.kind = "msg" /\ r.msg.op = HEARTBEAT
           /\ inmsg' = r.msg
           /\ sequence' = NewSequence(r.msg)
    /\ out' = <<HeartbeatMessage(sequence')>>
    /\ hb_unacked' = CountHeartbeat
    /\ heartbeat_acked' = FALSE
    /\ UNCHANGED <<running, pc, ws, url, reconnect_count, max_reconnect, delay, wait,
                   config, session_id, resume_url, heartbeat_interval,
                   hb_pc, rl_pc, close_code, established,
                   fail_streak, unresumable>>
    /\ UNCHANGED <<resumable, ended, stop_saved>>
    /\ inflator' = AfterDecode(raw, inflator, FALSE)
    /\ UNCHANGED assetVars
    /\ UNCHANGED decVars
    /\ UNCHANGED buildVars
    /\ UNCHANGED fileVars

\* op 1: the server asks for a heartbeat; _send_heartbeat
ListenHeartbeat(raw) ==
    /\ Listening
    /\ LET r == DecodeMessage(raw)
       IN  /\ r.kind = "msg" /\ r.msg.op = HEARTBEAT
           /\ inmsg' = r.msg
           /\ sequence' = NewSequence(r.msg)
    /\ out' = <<HeartbeatMessage(sequence')>>
    /\ hb_unacked' = CountHeartbeat
    /\ UNCHANGED <<running, pc, ws, url, reconnect_count, max_reconnect, delay, wait,
                   config, session_id, resume_url, heartbeat_interval,
                   heartbeat_acked, hb_pc, rl_pc, close_code, established,
                   fail_streak, unresumable>>
    /\ UNCHANGED <<resumable, ended, stop_saved>>
    /\ inflator' = AfterDecode(raw, inflator, FALSE)
    /\ UNCHANGED assetVars
    /\ UNCHANGED decVars
    /\ UNCHANGED buildVars
    /\ UNCHANGED fileVars

\* op 11: self._heartbeat_acked = True
ListenHeartbeatAck(raw) ==
    /\ Listening
    /\ LET r == DecodeMessage(raw)
       IN  /\ r.kind = "msg" /\ r.msg.op = HEARTBEAT_ACK
           /\ inmsg' = NoMsg
           /\ sequence' = NewSequence(r.msg)
    /\ heartbeat_acked' = TRUE
    /\ hb_unacked' = 0
    /\ out' = <<>>
    /\ UNCHANGED <<running, pc, ws, url, reconnect_count, max_reconnect, delay, wait,
                   config, session_id, resume_url, heartbeat_interval, hb_pc, rl_pc,
                   close_code, established, fail_streak, unresumable>>
    /\ UNCHANGED <<resumable, ended, stop_saved>>
    /\ inflator' = AfterDecode(raw, inflator, FALSE)
    /\ UNCHANGED assetVars
    /\ UNCHANGED decVars
    /\ UNCHANGED buildVars
    /\ UNCHANGED fileVars

\* op 7: await self._ws.close(4000); return
ListenReconnect(raw) ==
    /\ Listening
    /\ LET r == DecodeMessage(raw)
       IN  /\ r.kind = "msg" /\ r.msg.op = RECONNECT
           /\ inmsg' = r.msg
           /\ sequence' = NewSequence(r.msg)
    /\ out' = <<>>
    /\ close_code' = NoClose
    /\ UNCHANGED established
    /\ EndAttempt
    /\ UNCHANGED <<running, reconnect_count, max_reconnect, delay, wait, config,
                   session_id, resume_url, heartbeat_interval, heartbeat_acked,
                   unresumable>>
    /\ ended' = "reconnect"
    /\ resumable' = (session_id' # None /\ sequence' # NoSeq)
    /\ UNCHANGED stop_saved
    /\ inflator' = AfterDecode(raw, inflator, TRUE)
    /\ UNCHANGED assetVars
    /\ UNCHANGED decVars
    /\ UNCHANGED buildVars
    /\ UNCHANGED fileVars

\* clearing that keeps the resume endpoint
ClearSessionOnly ==
    /\ session_id' = None
    /\ sequence' = NoSeq
    /\ UNCHANGED resume_url

\* if not resumable: the continuity is cleared
ClearContinuity ==
    /\ session_id' = None
    /\ sequence' = NoSeq
    /\ resume_url' = None

\* op 9: an unresumable session clears the continuity; then the handler
\* sleeps 1 to 5 seconds
ListenInvalidSession(raw) ==
    /\ Listening
    /\ LET r == DecodeMessage(raw)
       IN  /\ r.kind = "msg" /\ r.msg.op = INVALID_SESSION
           /\ inmsg' = r.msg
           /\ IF ~Resumable(r.msg)
              THEN /\ ClearContinuity
                   /\ unresumable' = TRUE
              ELSE /\ sequence' = NewSequence(r.msg)
                   /\ UNCHANGED <<session_id, resume_url, unresumable>>
    /\ out' = <<>>
    /\ pc' = "invalid_wait"
    /\ UNCHANGED <<running, ws, url, reconnect_count, max_reconnect, delay, wait,
                   config, heartbeat_interval, heartbeat_acked, hb_pc, rl_pc,
                   close_code, hb_unacked, established, fail_streak>>
    /\ resumable' = (session_id' # None /\ sequence' # NoSeq)
    /\ UNCHANGED <<ended, stop_saved>>
    /\ inflator' = AfterDecode(raw, inflator, FALSE)
    /\ UNCHANGED assetVars
    /\ UNCHANGED decVars
    /\ UNCHANGED buildVars
    /\ UNCHANGED fileVars

\* ... then closes the connection with 4000 and returns
InvalidWaitDone ==
    /\ pc = "invalid_wait"
    /\ inmsg' = NoMsg
    /\ out' = <<>>
    /\ close_code' = NoClose
    /\ UNCHANGED established
    /\ EndAttempt
    /\ UNCHANGED <<running, reconnect_count, max_reconnect, delay, wait, config,
                   session_id, sequence, resume_url, heartbeat_interval,
                   heartbeat_acked, unresumable>>
    /\ ended' = "invalid_session"
    /\ UNCHANGED <<resumable, stop_saved>>
    /\ inflator' = Retire(inflator)
    /\ UNCHANGED assetVars
    /\ UNCHANGED decVars
    /\ UNCHANGED buildVars
    /\ UNCHANGED fileVars

\* any other opcode: only the sequence is stored
ListenOther(raw) ==
    /\ Listening
    /\ LET r == DecodeMessage(raw)
       IN  /\ r.kind = "msg"
           /\ r.msg.op \notin ListenOps
           /\ inmsg' = NoMsg
           /\ sequence' = NewSequence(r.msg)
    /\ out' = <<>>
    /\ UNCHANGED <<running, pc, ws, url, reconnect_count, max_reconnect, delay, wait,
                   config, session_id, resume_url, heartbeat_interval,
                   heartbeat_acked, hb_pc, rl_pc, close_code, hb_unacked,
                   established, fail_streak, unresumable>>
    /\ UNCHANGED <<resumable, ended, stop_saved>>
    /\ inflator' = AfterDecode(raw, inflator, FALSE)
    /\ UNCHANGED assetVars
    /\ UNCHANGED decVars
    /\ UNCHANGED buildVars
    /\ UNCHANGED fileVars

\* the server closes the connection while _listen reads: code 1000 ends the
\* iteration (ConnectionClosedOK), any other raises ConnectionClosedError,
\* which _session catches
ServerClose(code) ==
    /\ Listening
    /\ inmsg' = NoMsg
    /\ out' = <<>>
    /\ close_code' = code
    /\ running' = SessionCloseHandler(code)
    /\ UNCHANGED established
    /\ EndAttempt
    /\ UNCHANGED <<reconnect_count, max_reconnect, delay, wait, config,
                   session_id, sequence, resume_url, heartbeat_interval,
                   heartbeat_acked, unresumable>>
    /\ ended' = "closed"
    /\ UNCHANGED <<resumable, stop_saved>>
    /\ inflator' = Retire(inflator)
    /\ UNCHANGED assetVars
    /\ UNCHANGED decVars
    /\ UNCHANGED buildVars
    /\ UNCHANGED fileVars

\* the connection was closed by the heartbeat task: the iteration of _listen
\* ends with the client's own close code
ListenClosedLocally ==
    /\ pc = "listen"
    /\ ws = "closed"
    /\ inmsg' = NoMsg
    /\ out' = <<>>
    /\ close_code' = LOCAL_CLOSE_CODE
    /\ running' = SessionCloseHandler(LOCAL_CLOSE_CODE)
    /\ UNCHANGED established
    /\ EndAttempt
    /\ UNCHANGED <<reconnect_count, max_reconnect, delay, wait, config,
                   session_id, sequence, resume_url, heartbeat_interval,
                   heartbeat_acked, unresumable>>
    /\ ended' = "heartbeat_miss"
    /\ UNCHANGED <<resumable, stop_saved>>
    /\ inflator' = Retire(inflator)
    /\ UNCHANGED assetVars
    /\ UNCHANGED decVars
    /\ UNCHANGED buildVars
    /\ UNCHANGED fileVars

----------------------------------------------------------------------------
(* The two background tasks of an attempt *)

AttemptAlive == pc \in {"listen", "invalid_wait"}

\* _heartbeat_loop after a sleep: close the connection if the last heartbeat
\* was not acknowledged, else send a heartbeat
HeartbeatTick ==
    /\ AttemptAlive
    /\ ws = "open"
    /\ hb_pc = "sleep"
    /\ inmsg' = NoMsg
    /\ IF ~heartbeat_acked
       THEN /\ ws' = "closed"
            /\ hb_pc' = "closed"
            /\ out' = <<>>
            /\ UNCHANGED <<heartbeat_acked, hb_unacked>>
       ELSE /\ heartbeat_acked' = FALSE
            /\ out' = <<HeartbeatMessage(sequence)>>
            /\ hb_unacked' = CountHeartbeat
            /\ hb_pc' = "sleep"
            /\ UNCHANGED ws
    /\ UNCHANGED <<running, pc, url, reconnect_count, max_reconnect, delay, wait,
                   config, session_id, sequence, resume_url, heartbeat_interval,
                   rl_pc, close_code, established, fail_streak, unresumable>>
    /\ UNCHANGED <<resumable, ended, stop_saved>>
    /\ UNCHANGED inflator
    /\ UNCHANGED assetVars
    /\ UNCHANGED decVars
    /\ UNCHANGED buildVars
    /\ UNCHANGED fileVars

\* _config_reload_loop after a sleep, the file having changed: reload the
\* configuration (newDelay: reconnect_delay of the file) and send the presence
ConfigReloadTick(newDelay) ==
    /\ AttemptAlive
    /\ rl_pc = "sleep"
    /\ config' = [config EXCEPT !.reconnect_delay = newDelay]
    /\ inmsg' = NoMsg
    /\ out' = IF ws = "open" THEN UpdatePresence ELSE <<>>
    /\ UNCHANGED <<running, pc, ws, url, reconnect_count, max_reconnect, delay, wait,
                   session_id, sequence, resume_url, heartbeat_interval,
                   heartbeat_acked, hb_pc, rl_pc, close_code, hb_unacked,
                   established, fail_streak, unresumable>>
    /\ UNCHANGED <<resumable, ended, stop_saved>>
    /\ UNCHANGED inflator
    /\ UNCHANGED assetVars
    /\ UNCHANGED decVars
    /\ UNCHANGED buildVars
    /\ UNCHANGED fileVars

----------------------------------------------------------------------------
(* The session engine *)

Engine ==
    \/ \E ok \in BOOLEAN : Connect(ok)
    \/ \E halves \in JitterHalves : AfterAttempt(halves)
    \/ Wake
    \/ Stop
    \/ Cancelled
    \/ \E code \in CloseCodes : HelloClosed(code)
    \/ \E raw \in WireFrames \ FramesByOp[HELLO] : HelloAbort(raw)
    \/ \E raw \in FramesByOp[HELLO] : HelloAuth(raw)
    \/ \E raw \in FramesByOp[HELLO], code \in CloseCodes : HelloAuthClosed(raw, code)
    \/ \E raw \in IncompleteFrames : ListenIncomplete(raw)
    \/ \E raw \in ErrorFrames : ListenDecodeError(raw)
    \/ \E raw \in FramesByOp[DISPATCH] : ListenDispatch(raw)
    \/ \E raw \in FramesByOp[HEARTBEAT] : ListenHeartbeat(raw)
    \/ \E raw \in FramesByOp[HEARTBEAT_ACK] : ListenHeartbeatAck(raw)
    \/ \E raw \in FramesByOp[RECONNECT] : ListenReconnect(raw)
    \/ \E raw \in FramesByOp[INVALID_SESSION] : ListenInvalidSession(raw)
    \/ \E raw \in UnhandledFrames : ListenOther(raw)
    \/ InvalidWaitDone
    \/ \E code \in CloseCodes : ServerClose(code)
    \/ ListenClosedLocally
    \/ HeartbeatTick

Next ==
    \/ Engine
    \/ \E d \in BaseDelays : ConfigReloadTick(d)

Spec == Init /\ [][Next]_vars

----------------------------------------------------------------------------
(* The frame decoder on one connection.  The server writes logical messages *)
(* one after the other, each in one or more binary fragments of which only  *)
(* the last ends with ZLIB_SUFFIX; the client calls _decode_message on each *)
(* fragment with the inflator of the connection.                            *)

\* logical messages the server writes in the decoder specification
DecodeMsgs == HelloMsgs \cup HeartbeatAckMsgs

\* the server starts to write the logical message m
ServerWrite(m) ==
    /\ dec_ret.kind # "error"
    /\ dec_msg = NoMsg
    /\ Len(dec_sent) < MaxDecodeMsgs
    /\ dec_msg' = m
    /\ dec_rest' = Doc(m)
    /\ UNCHANGED <<dec_sent, dec_got, dec_ret>>
    /\ UNCHANGED engineVars
    /\ UNCHANGED buildVars
    /\ UNCHANGED fileVars

\* The next fragment arrives and _decode_message is called on it.  The
\* inflator yields the next n tokens of the text for it: how much plaintext a
\* fragment yields is up to the deflate stream, but the last fragment, which
\* ends with the marker, yields all that is left.  An exception ends the
\* connection.
DecodeFragment(n, last) ==
    /\ dec_ret.kind # "error"
    /\ dec_msg # NoMsg
    /\ n \in 0..Len(dec_rest)
    /\ last => n = Len(dec_rest)
    /\ LET raw == Frame(TRUE, SubSeq(dec_rest, 1, n), last)
           r == DecodeMessage(raw)
       IN  /\ dec_ret' = r
           /\ dec_got' = IF r.kind = "msg" THEN Append(dec_got, r.msg) ELSE dec_got
    /\ dec_rest' = SubSeq(dec_rest, n + 1, Len(dec_rest))
    /\ dec_sent' = IF last THEN Append(dec_sent, dec_msg) ELSE dec_sent
    /\ dec_msg' = IF last THEN NoMsg ELSE dec_msg
    /\ UNCHANGED engineVars
    /\ UNCHANGED buildVars
    /\ UNCHANGED fileVars

NextDecode ==
    \/ \E m \in DecodeMsgs : ServerWrite(m)
    \/ \E n \in 0..Len(dec_rest), last \in BOOLEAN : DecodeFragment(n, last)

SpecDecode == Init /\ [][NextDecode]_vars

----------------------------------------------------------------------------
(* The session engine with reconnect_delay left at its default of 5: the   *)
(* configuration file may change, but not in that field.                    *)

InitBase5 == Init /\ config.reconnect_delay = DEFAULT_RECONNECT_DELAY

NextBase5 ==
    \/ Engine
    \/ ConfigReloadTick(config.reconnect_delay)

SpecBase5 == InitBase5 /\ [][NextBase5]_vars

-----------------------------------------------------------------------------
(* The session engine against a server whose sequence numbers range over    *)
(* 1..MaxSeqOrder, so that a message may carry a sequence number below,     *)
(* equal to or above the stored one.  The transport always opens, the       *)
(* messages arrive as complete binary frames, and the configuration keeps   *)
(* its defaults.                                                             *)

MaxSeqOrder == 2

SeqOrderOpt == (1..MaxSeqOrder) \cup {NoSeq}
SeqOrderMsgs ==
    { Msg(op, s, None, None, None, None, 0) :
        op \in {HEARTBEAT, HEARTBEAT_ACK, RECONNECT}, s \in SeqOrderOpt }
    \cup { Msg(INVALID_SESSION, s, None, None, None, d, 0) :
             s \in SeqOrderOpt, d \in {"true", "false"} }
    \cup { Msg(DISPATCH, s, "READY", "abc", "wss://resume.discord.gg", None, 0) :
             s \in SeqOrderOpt }
    \cup { Msg(DISPATCH, s, "MESSAGE_CREATE", None, None, None, 0) :
             s \in SeqOrderOpt }
    \cup { Msg(HELLO, s, None, None, None, None, HELLO_HEARTBEAT_MS) :
             s \in SeqOrderOpt }
SeqOrderFrames ==
    [ op \in {DISPATCH, HEARTBEAT, HEARTBEAT_ACK, RECONNECT, INVALID_SESSION, HELLO} |->
        { BinFrame(m) : m \in { x \in SeqOrderMsgs : x.op = op } } ]

InitSeqOrder ==
    /\ Init
    /\ max_reconnect = 0
    /\ config.reconnect_delay = DEFAULT_RECONNECT_DELAY

NextSeqOrder ==
    \/ Connect(TRUE)
    \/ AfterAttempt(0)
    \/ Wake
    \/ Stop
    \/ Cancelled
    \/ \E raw \in SeqOrderFrames[HEARTBEAT_ACK] : HelloAbort(raw)
    \/ \E raw \in SeqOrderFrames[HELLO] : HelloAuth(raw)
    \/ \E raw \in SeqOrderFrames[DISPATCH] : ListenDispatch(raw)
    \/ \E raw \in SeqOrderFrames[HEARTBEAT] : ListenHeartbeat(raw)
    \/ \E raw \in SeqOrderFrames[HEARTBEAT_ACK] : ListenHeartbeatAck(raw)
    \/ \E raw \in SeqOrderFrames[RECONNECT] : ListenReconnect(raw)
    \/ \E raw \in SeqOrderFrames[INVALID_SESSION] : ListenInvalidSession(raw)
    \/ InvalidWaitDone
    \/ ServerClose(1000)
    \/ ListenClosedLocally
    \/ HeartbeatTick

SpecSeqOrder == InitSeqOrder /\ [][NextSeqOrder]_vars

-----------------------------------------------------------------------------
(* The session engine with an unlimited budget (max_reconnect_attempts 0),  *)
(* a server that closes with non-fatal codes only, and nobody stopping the  *)
(* program.  The steps of run() are fair: the budget computation after an   *)
(* attempt, the end of the retry sleep and the call of websockets.connect   *)
(* are eventually taken.  Nothing is assumed of the server or of the two    *)
(* tasks.  A connect may fail only while reconnect_count can still count    *)
(* the failure within MaxReconnectCount.                                     *)

NonFatalCloseCodes == CloseCodes \ FATAL_CLOSE_CODES

InitUnlimited == Init /\ max_reconnect = 0

ConnectCounted ==
    \E ok \in BOOLEAN :
        /\ ok \/ reconnect_count + 1 < MaxReconnectCount
        /\ Connect(ok)

NextUnlimited ==
    \/ ConnectCounted
    \/ \E halves \in JitterHalves : AfterAttempt(halves)
    \/ Wake
    \/ \E code \in NonFatalCloseCodes : HelloClosed(code)
    \/ \E raw \in WireFrames \ FramesByOp[HELLO] : HelloAbort(raw)
    \/ \E raw \in FramesByOp[HELLO] : HelloAuth(raw)
    \/ \E raw \in FramesByOp[HELLO], code \in NonFatalCloseCodes :
          HelloAuthClosed(raw, code)
    \/ \E raw \in IncompleteFrames : ListenIncomplete(raw)
    \/ \E raw \in ErrorFrames : ListenDecodeError(raw)
    \/ \E raw \in FramesByOp[DISPATCH] : ListenDispatch(raw)
    \/ \E raw \in FramesByOp[HEARTBEAT] : ListenHeartbeat(raw)
    \/ \E raw \in FramesByOp[HEARTBEAT_ACK] : ListenHeartbeatAck(raw)
    \/ \E raw \in FramesByOp[RECONNECT] : ListenReconnect(raw)
    \/ \E raw \in FramesByOp[INVALID_SESSION] : ListenInvalidSession(raw)
    \/ \E raw \in UnhandledFrames : ListenOther(raw)
    \/ InvalidWaitDone
    \/ \E code \in NonFatalCloseCodes : ServerClose(code)
    \/ ListenClosedLocally
    \/ HeartbeatTick
    \/ \E d \in BaseDelays : ConfigReloadTick(d)

SpecUnlimited ==
    /\ InitUnlimited
    /\ [][NextUnlimited]_vars
    /\ WF_vars(ConnectCounted)
    /\ WF_vars(\E halves \in JitterHalves : AfterAttempt(halves))
    /\ WF_vars(Wake)

-----------------------------------------------------------------------------
(* The session engine against a quiet server: the transport opens or fails  *)
(* to open, and on an open transport the server sends at most a Hello and   *)
(* HeartbeatAcks, and never closes.  Nobody stops the program.  The client's *)
(* own steps are fair: a step of run(), of the heartbeat loop or of the     *)
(* reload loop that can be taken is eventually taken.  Nothing is assumed   *)
(* of the server.                                                            *)

NextQuiet ==
    \/ \E ok \in BOOLEAN : Connect(ok)
    \/ \E halves \in JitterHalves : AfterAttempt(halves)
    \/ Wake
    \/ \E raw \in FramesByOp[HELLO] : HelloAuth(raw)
    \/ \E raw \in FramesByOp[HEARTBEAT_ACK] : ListenHeartbeatAck(raw)
    \/ ListenClosedLocally
    \/ HeartbeatTick
    \/ ConfigReloadTick(config.reconnect_delay)

SpecQuiet ==
    /\ Init
    /\ [][NextQuiet]_vars
    /\ WF_vars(\E ok \in BOOLEAN : Connect(ok))
    /\ WF_vars(\E halves \in JitterHalves : AfterAttempt(halves))
    /\ WF_vars(Wake)
    /\ WF_vars(ListenClosedLocally)
    /\ WF_vars(HeartbeatTick)
    /\ WF_vars(ConfigReloadTick(config.reconnect_delay))

-----------------------------------------------------------------------------
(* The session engine with any configured application_id: on an opened      *)
(* transport _refresh_assets looks the icons up before the first frame is   *)
(* read.  The budget is unlimited, the configuration keeps its delay, the   *)
(* server sends Hello, READY and HeartbeatAck or closes normally.            *)

InitAssets ==
    /\ InitEngine
    /\ max_reconnect = 0
    /\ config.reconnect_delay = DEFAULT_RECONNECT_DELAY
    /\ InitDecoder
    /\ InitBuilder
    /\ InitFile

NextAssets ==
    \/ \E ok \in BOOLEAN : Connect(ok)
    \/ \E mapping \in AssetMaps \cup {[n \in {"logo", "icon"} |-> "555000222"]} :
          RefreshAssets(mapping)
    \/ AfterAttempt(0)
    \/ Wake
    \/ Stop
    \/ Cancelled
    \/ HelloClosed(1000)
    \/ \E raw \in FramesByOp[HELLO] : HelloAuth(raw)
    \/ \E raw \in FramesByOp[HEARTBEAT_ACK] : HelloAbort(raw)
    \/ \E raw \in FramesByOp[HEARTBEAT_ACK] : ListenHeartbeatAck(raw)
    \/ ServerClose(1000)
    \/ ListenClosedLocally
    \/ HeartbeatTick
    \/ ConfigReloadTick(config.reconnect_delay)

SpecAssets == InitAssets /\ [][NextAssets]_vars

-----------------------------------------------------------------------------
(* The presence builder called again and again by one process: the          *)
(* configuration, start_ts and the asset map stay as they are, the clock    *)
(* advances between the calls.                                               *)

MaxTicks == 1

InitBuild ==
    /\ InitEngine
    /\ app_id = ""
    /\ max_reconnect = 0
    /\ config.reconnect_delay = DEFAULT_RECONNECT_DELAY
    /\ InitDecoder
    /\ b_config \in BuildConfigs
    /\ b_start \in StartTimes
    /\ b_assets \in AssetMaps
    /\ b_now = ClockStart
    /\ b_ticks = 0
    /\ b_ret = NoCall
    /\ b_prev = NoCall
    /\ InitFile

\* time passes: the clock advances by dt half milliseconds
ClockTick(dt) ==
    /\ b_ticks < MaxTicks
    /\ b_ticks' = b_ticks + 1
    /\ b_now' = b_now + dt
    /\ UNCHANGED <<b_config, b_start, b_assets, b_ret, b_prev>>
    /\ UNCHANGED engineVars
    /\ UNCHANGED decVars
    /\ UNCHANGED fileVars

\* build_presence_payload(config, start_ts, asset_map)
BuildCall ==
    /\ b_prev' = b_ret
    /\ b_ret' = BuildPresencePayload(b_config, b_start, b_assets, b_now)
    /\ UNCHANGED <<b_config, b_start, b_assets, b_now, b_ticks>>
    /\ UNCHANGED engineVars
    /\ UNCHANGED decVars
    /\ UNCHANGED fileVars

NextBuild ==
    \/ \E dt \in {1, 2000} : ClockTick(dt)
    \/ BuildCall

SpecBuild == InitBuild /\ [][NextBuild]_vars

-----------------------------------------------------------------------------
(* The configuration and its file: AppConfig() has loaded a file with a     *)
(* valid token; the file is edited, removed or damaged from outside at any  *)
(* time; the reload loop calls has_changed() and, if it returned True,      *)
(* reload().                                                                 *)

InitReload ==
    /\ InitEngine
    /\ app_id = ""
    /\ max_reconnect = 0
    /\ config.reconnect_delay = DEFAULT_RECONNECT_DELAY
    /\ InitDecoder
    /\ InitBuilder
    /\ cf_file \in {f \in Mappings : ~TokenRejected(f)}
    /\ cf_raw = cf_file
    /\ cf_hash = Dumps(cf_raw)
    /\ cf_changed = FALSE
    /\ cf_ret = "none"

\* config.yml is written, removed or damaged by somebody else
FileEdit(file) ==
    /\ cf_file' = file
    /\ UNCHANGED <<cf_raw, cf_hash, cf_changed, cf_ret>>
    /\ UNCHANGED engineVars
    /\ UNCHANGED decVars
    /\ UNCHANGED buildVars

\* if self.config.has_changed():
PollChanged ==
    /\ ~cf_changed
    /\ cf_changed' = HasChanged(cf_file, cf_hash)
    /\ UNCHANGED <<cf_file, cf_raw, cf_hash, cf_ret>>
    /\ UNCHANGED engineVars
    /\ UNCHANGED decVars
    /\ UNCHANGED buildVars

\* self.config.reload(): _load(strict=True), ConfigError gives False
Reload ==
    /\ cf_changed
    /\ LET r == Load(cf_file, cf_raw, cf_hash)
       IN  /\ cf_raw' = r.raw
           /\ cf_hash' = r.hash
           /\ cf_ret' = IF r.exc = "none" THEN "true" ELSE "false"
    /\ cf_changed' = FALSE
    /\ UNCHANGED cf_file
    /\ UNCHANGED engineVars
    /\ UNCHANGED decVars
    /\ UNCHANGED buildVars

NextReload ==
    \/ \E file \in Files : FileEdit(file)
    \/ PollChanged
    \/ Reload

SpecReload == InitReload /\ [][NextReload]_vars

----------------------------------------------------------------------------
(* Properties *)

\* number of Presence Update messages in a sequence of outbound messages
PresenceCount(o) == Cardinality({i \in 1..Len(o) : o[i].op = PRESENCE_UPDATE})

\* C1: on every attempt nothing is sent before Hello is handled, and the step
\* that handles Hello sends exactly one message: Resume with the stored
\* session id and sequence if both are stored, Identify otherwise.
C1_FirstMessageAfterHello ==
    [][ /\ pc = "connect" => out' = <<>>
        /\ pc = "hello" /\ pc' # "listen" => out' = <<>>
        /\ pc = "hello" /\ pc' = "listen" =>
              out' = << IF session_id # None /\ sequence # NoSeq
                        THEN Out(RESUME, session_id, sequence)
                        ELSE Out(IDENTIFY, None, NoSeq) >> ]_vars

\* Hello was answered with Resume
C1_Witness ==
    /\ pc = "listen"
    /\ inmsg.op = HELLO
    /\ Len(out) = 1
    /\ out[1].op = RESUME
    /\ out[1].session_id = session_id
    /\ out[1].seq = sequence

\* C2: an attempt ended by a close code of the fatal set leaves the run loop
\* stopped (_running cleared), in whatever phase the close arrived.
C2_FatalCloseStops == close_code \in FATAL_CLOSE_CODES => ~running

\* C3: every call of _decode_message on a fragment that completes a logical
\* message returns that message, every call on another fragment returns
\* "not yet", and so the messages returned are the messages written, in order.
C3_OneMessagePerLogicalMessage ==
    [][ dec_msg # NoMsg =>
          IF dec_msg' = NoMsg
          THEN dec_ret' = Ret("msg", dec_msg) /\ dec_got' = Append(dec_got, dec_msg)
          ELSE dec_ret' = RetNone /\ dec_got' = dec_got ]_vars

\* C4: the step that handles a READY dispatch stores its session id and
\* resume endpoint and sends exactly one Presence Update; the step that
\* handles a dispatch other than READY and RESUMED sends none.
C4_ReadyOnePresence ==
    inmsg.op = DISPATCH =>
        /\ inmsg.t = "READY" =>
              /\ session_id = inmsg.session_id
              /\ resume_url = inmsg.resume_gateway_url
              /\ PresenceCount(out) = 1
        /\ inmsg.t \notin {"READY", "RESUMED"} => PresenceCount(out) = 0

\* C5: no third heartbeat is sent on a connection without an ack since the
\* first of the previous two.
C5_NoThirdHeartbeat == hb_unacked < 3

\* C6: with a limited budget N, once N+1 consecutive attempts have ended
\* without being established, the run loop does not go on to a retry.
C6_BudgetStops ==
    (max_reconnect > 0 /\ fail_streak > max_reconnect) =>
        pc \in {"after", "stopping", "done"}

C8_DelayBounds ==
    /\ RLeq(RInt(config.reconnect_delay), delay)
    /\ RLeq(delay, RInt(DELAY_CEILING))
    /\ pc = "sleep" => RLeq(delay, wait) /\ RLeq(wait, RAdd(delay, delay))

\* C9: in the state in which READY or RESUMED has just been handled, the
\* attempt count is 0 and the delay is the configured base.
C9_ResetAtEstablished ==
    (inmsg.op = DISPATCH /\ inmsg.t \in {"READY", "RESUMED"}) =>
        /\ reconnect_count = 0
        /\ REq(delay, RInt(config.reconnect_delay))

\* C10: once an unresumable InvalidSession has been handled, session id,
\* sequence and resume endpoint are empty and the handler closes the
\* connection; until the next Identify, every attempt connects to
\* GATEWAY_URL, and the message sent after Hello is Identify.
C10_UnresumableIdentifies ==
    [][ /\ unresumable' =>
              session_id' = None /\ sequence' = NoSeq /\ resume_url' = None
        /\ unresumable /\ pc = "invalid_wait" /\ pc' = "after" =>
              ws' = "closed"
        /\ unresumable /\ pc = "connect" /\ pc' \in {"hello", "after"} =>
              url' = GATEWAY_URL
        /\ unresumable /\ pc = "hello" /\ pc' = "listen" =>
              out' = <<Out(IDENTIFY, None, NoSeq)>> ]_vars

\* the attempt after an unresumable InvalidSession has connected
C10_Witness ==
    /\ unresumable
    /\ pc = "hello"
    /\ ws = "open"
    /\ url = GATEWAY_URL

\* the step handles a Reconnect, or an InvalidSession whose payload is true,
\* while a session id and a sequence are stored
ResumableEndStep ==
    /\ pc = "listen"
    /\ session_id # None
    /\ sequence # NoSeq
    /\ \/ inmsg'.op = RECONNECT /\ ended' = "reconnect"
       \/ inmsg'.op = INVALID_SESSION /\ inmsg'.d = "true" /\ pc' = "invalid_wait"

\* C11 as stated: after a Reconnect, or an InvalidSession whose payload is
\* true, received with a session id and a sequence stored, session id,
\* sequence and resume endpoint keep their values.
C11_ContinuityUnchanged ==
    [][ ResumableEndStep =>
            /\ session_id' = session_id
            /\ sequence' = sequence
            /\ resume_url' = resume_url ]_vars

\* C11: after a Reconnect, or an InvalidSession whose payload is true,
\* received with a session id and a sequence stored, session id and resume
\* endpoint keep their values and the sequence becomes the one the message
\* carries, if it carries one; the handler closes the connection (after its
\* wait, for InvalidSession); nothing changes the three values before the
\* next Hello, and the message sent after that Hello is Resume with the
\* stored session id and sequence.
C11_ResumeAfterReconnect ==
    [][ /\ ResumableEndStep =>
              /\ session_id' = session_id
              /\ resume_url' = resume_url
              /\ sequence' = IF inmsg'.s # NoSeq THEN inmsg'.s ELSE sequence
              /\ resumable'
              /\ inmsg'.op = RECONNECT => pc' = "after" /\ ws' = "closed"
        /\ resumable =>
              /\ session_id' = session_id
              /\ sequence' = sequence
              /\ resume_url' = resume_url
        /\ resumable /\ pc = "invalid_wait" /\ pc' = "after" => ws' = "closed"
        /\ resumable /\ pc = "hello" /\ pc' = "listen" =>
              out' = <<Out(RESUME, session_id, sequence)>> ]_vars

\* the attempt after a Reconnect or a resumable InvalidSession has connected
\* and waits for its Hello, session id and sequence still stored
C11_Witness ==
    /\ resumable
    /\ pc = "hello"
    /\ ws = "open"
    /\ session_id = "abc"
    /\ sequence = MaxSeqOrder
    /\ url = "wss://resume.discord.gg"

\* C12: when the last step handled an inbound message that carries a
\* sequence number, the stored sequence is that number (an unresumable
\* InvalidSession, which clears the sequence after storing it, set aside).
C12_SequenceStored ==
    (/\ inmsg # NoMsg
     /\ inmsg.s # NoSeq
     /\ ~(inmsg.op = INVALID_SESSION /\ ~Resumable(inmsg))) => sequence = inmsg.s

\* C13: the step of the dispatch loop that receives a malformed frame leaves
\* the connection open and the dispatch loop running.
C13_MalformedDropped ==
    [][ pc = "listen" /\ ended' = "decode_error" =>
            pc' = "listen" /\ ws' = "open" ]_vars

\* C14: when the last step handled a heartbeat request (op 1), one heartbeat
\* has been sent and the acknowledged flag is false.
C14_RequestedHeartbeatUnacked ==
    inmsg.op = HEARTBEAT =>
        /\ out = <<HeartbeatMessage(sequence)>>
        /\ ~heartbeat_acked

\* C15: an attempt whose transport is open and which waits for its first
\* message eventually ends as a non-fatal failure, the run loop going on to
\* schedule a retry.
C15_HelloWaitEnds ==
    [](pc = "hello" /\ ws = "open" => <>(pc # "hello"))

\* C16: an attempt that has sent Identify or Resume and has received neither
\* READY nor RESUMED eventually ends as a non-fatal failure, the run loop
\* going on to schedule a retry.
C16_ReadyWaitEnds ==
    []((pc = "listen" /\ ~established) => <>(pc = "after" /\ running))

\* C17: the step that receives a first message which is not a Hello sends
\* nothing, leaves no heartbeat or reload task, leaves session id, sequence
\* and resume endpoint as they were, closes the connection and hands over to
\* the reconnect policy with the run flag still set; unless the program is
\* stopped, the policy then counts the attempt and either sleeps between
\* delay and 2 x delay before the next attempt or stops on an exhausted
\* budget.
C17_NotHelloAborts ==
    [][ /\ pc = "hello" /\ ended' = "not_hello" =>
              /\ out' = <<>>
              /\ hb_pc' = "none" /\ rl_pc' = "none"
              /\ session_id' = session_id
              /\ sequence' = sequence
              /\ resume_url' = resume_url
              /\ ws' = "closed"
              /\ pc' = "after"
              /\ running /\ running'
        /\ pc = "after" /\ ended = "not_hello" /\ pc' # "stopping" =>
              /\ reconnect_count' = reconnect_count + 1
              /\ out' = <<>>
              /\ IF BudgetExceeded(reconnect_count')
                 THEN pc' = "done" /\ ~running'
                 ELSE /\ pc' = "sleep" /\ running'
                      /\ RLeq(delay, wait')
                      /\ RLeq(wait', RAdd(delay, delay)) ]_vars

\* an attempt has been aborted on a first message that was not a Hello,
\* with a session stored
C17_Witness ==
    /\ pc = "after"
    /\ ended = "not_hello"
    /\ session_id # None
    /\ sequence # NoSeq

\* C18: once a local stop has saved the elapsed time, the heartbeat and
\* reload tasks have completed and the transport is closed.
C18_SaveAfterTeardown ==
    stop_saved => hb_pc = "none" /\ rl_pc = "none" /\ ws # "open"

\* C19: the run flag is cleared only by a local stop, by a fatal close code
\* or by the budget test of the reconnect policy, and run() ends only after
\* one of the three; an attempt that ends on a failed connect, a missing or
\* wrong first message, a close, a decode error, a Reconnect, an
\* InvalidSession or a missed heartbeat hands over to the reconnect policy.
C19_OnlyFatalBudgetOrStop ==
    [][ /\ running /\ ~running' =>
              \/ pc' = "stopping"
              \/ close_code' \in FATAL_CLOSE_CODES
              \/ pc = "after" /\ BudgetExceeded(reconnect_count + 1)
        /\ pc # "done" /\ pc' = "done" =>
              \/ pc = "stopping"
              \/ pc = "after" /\ ~running /\ close_code \in FATAL_CLOSE_CODES
              \/ pc = "after" /\ running /\ BudgetExceeded(reconnect_count + 1)
        /\ ended = "none" /\ ended' # "none" =>
              /\ pc' = "after"
              /\ running' \/ close_code' \in FATAL_CLOSE_CODES
        /\ pc = "after" /\ running /\ ~BudgetExceeded(reconnect_count + 1) =>
              pc' \in {"sleep", "stopping"} ]_vars

\* an attempt has ended on a decode error and the run loop goes on
C19_Witness ==
    /\ pc = "after"
    /\ ended = "decode_error"
    /\ running

\* C20: a step that leaves a sequence stored where one was stored before
\* (no clear in between) does not lower it.
C20_SequenceNeverDecreases ==
    [][ sequence # NoSeq /\ sequence' # NoSeq => sequence' >= sequence ]_vars

\* C21: a step that empties a stored session id, sequence or resume endpoint
\* is the handling of an unresumable InvalidSession, and it empties all
\* three.
C21_ClearedOnlyByUnresumable ==
    [][ (\/ session_id # None /\ session_id' = None
         \/ sequence # NoSeq /\ sequence' = NoSeq
         \/ resume_url # None /\ resume_url' = None) =>
            /\ pc = "listen" /\ pc' = "invalid_wait"
            /\ inmsg'.op = INVALID_SESSION /\ ~Resumable(inmsg')
            /\ session_id' = None /\ sequence' = NoSeq /\ resume_url' = None ]_vars

\* C22: with an unlimited budget, no fatal close code and no local stop, the
\* run flag stays set and run() does not end; after every attempt that has
\* ended, websockets.connect is eventually called again, and the call
\* returns or raises.
C22_UnlimitedRetries ==
    /\ [](running /\ pc # "done")
    /\ [](pc = "after" => <>(pc = "connect"))
    /\ [](pc = "connect" => <>(pc \in {"hello", "after"}))

\* under an unlimited budget, the attempt after three failures in a row is
\* about to start
C22_Witness ==
    /\ max_reconnect = 0
    /\ pc = "connect"
    /\ reconnect_count = 3

\* C23: while an attempt has its transport, from before its first frame to
\* its end, _inflator is a context created for that transport, and no binary
\* frame has been decoded with another one.
C23_FreshInflator ==
    /\ inflator # "misused"
    /\ pc \in {"hello", "listen", "invalid_wait"} => inflator = "current"

\* a second attempt has opened its transport and decodes frames in its
\* dispatch loop
C23_Witness ==
    /\ pc = "listen"
    /\ session_id # None
    /\ out = <<Out(RESUME, session_id, sequence)>>
    /\ inflator = "current"

\* C24: the step that starts an attempt connects to the stored resume
\* endpoint if one is stored, and to GATEWAY_URL otherwise.
C24_ConnectsToResumeEndpoint ==
    [][ pc = "connect" /\ pc' \in {"hello", "after"} =>
            /\ resume_url # None => url' = resume_url
            /\ resume_url = None => url' = GATEWAY_URL ]_vars

\* an attempt has connected to the stored resume endpoint
C24_Witness ==
    /\ pc = "hello"
    /\ ws = "open"
    /\ resume_url = "wss://resume.discord.gg"
    /\ url = resume_url

\* C25: every heartbeat the last step sent, from the heartbeat loop or on a
\* server request, carries the stored sequence (NoSeq when none is stored).
C25_HeartbeatCarriesSequence ==
    \A i \in 1..Len(out) : out[i].op = HEARTBEAT => out[i].seq = sequence

\* a heartbeat was sent on a server request that itself carried a sequence
\* number
C25_Witness ==
    /\ inmsg.op = HEARTBEAT
    /\ inmsg.s # NoSeq
    /\ out = <<Out(HEARTBEAT, None, inmsg.s)>>

\* the activity of the payload that the last call of build_presence_payload
\* returned
LastActivity == b_ret.value.activities[1]

RichKeys == {"application_id", "details", "state", "assets", "buttons", "metadata"}

\* C26: in a payload that was built, the activity has none of the keys
\* application_id, details, state, assets, buttons, metadata when the
\* configured application id is empty or the placeholder, whatever the other
\* configured values are; with a real application id it has application_id,
\* and each of the others exactly when its configured value is not empty
\* (assets: one of the four icon values; buttons and metadata: the button
\* list).
C26_RichFieldsGated ==
    b_ret.kind = "ok" =>
        IF b_config.application_id \in {"", PLACEHOLDER_APP_ID}
        THEN LastActivity.keys \cap RichKeys = {}
        ELSE /\ "application_id" \in LastActivity.keys
             /\ LastActivity.application_id = b_config.application_id
             /\ "details" \in LastActivity.keys <=> b_config.details # ""
             /\ "state" \in LastActivity.keys <=> b_config.state # ""
             /\ "assets" \in LastActivity.keys <=>
                    \/ b_config.large_image_key # ""
                    \/ b_config.large_image_text # ""
                    \/ b_config.small_image_key # ""
                    \/ b_config.small_image_text # ""
             /\ "buttons" \in LastActivity.keys <=> b_config.buttons_raw # <<>>
             /\ "metadata" \in LastActivity.keys <=> b_config.buttons_raw # <<>>

\* a payload was built from a configuration with the placeholder id and with
\* details, icons and buttons configured
C26_Witness ==
    /\ b_ret.kind = "ok"
    /\ b_config.application_id = PLACEHOLDER_APP_ID
    /\ b_config.details # ""
    /\ b_config.large_image_key # ""
    /\ b_config.buttons_raw # <<>>
    /\ LastActivity.keys \cap RichKeys = {}

\* C27: a call that builds a payload puts into it, in mode custom, the
\* millisecond of the instant that lies the configured minutes before the
\* time of the call, whatever start_ts is; in mode auto, the millisecond of
\* start_ts; in any other mode, no timestamps.
C27_StartTimestamp ==
    [][ b_ticks' = b_ticks /\ b_ret'.kind = "ok" =>
          LET a == b_ret'.value.activities[1]
              instant == b_now - b_config.custom_elapsed_minutes * 60 * 2000
          IN  /\ b_config.start_time_mode = "custom" =>
                    /\ "timestamps" \in a.keys
                    /\ 2 * a.start <= instant /\ instant < 2 * a.start + 2
              /\ b_config.start_time_mode = "auto" =>
                    /\ "timestamps" \in a.keys
                    /\ 2 * a.start <= b_start /\ b_start < 2 * a.start + 2
              /\ b_config.start_time_mode \notin {"auto", "custom"} =>
                    "timestamps" \notin a.keys ]_vars

\* a payload was built in mode custom by a process whose start_ts is not the
\* time of the call
C27_Witness ==
    /\ b_ret.kind = "ok"
    /\ b_config.start_time_mode = "custom"
    /\ b_start # b_now
    /\ b_ticks = 0
    /\ "timestamps" \in LastActivity.keys

\* C28: in a payload that was built, the activity has at most two button
\* labels and as many button URLs, the i-th label and the i-th URL being
\* those of the i-th configured button; when it has buttons, they are the
\* first two configured ones (or the only one).
C28_ButtonsParallel ==
    b_ret.kind = "ok" =>
        /\ Len(LastActivity.buttons) <= 2
        /\ Len(LastActivity.button_urls) = Len(LastActivity.buttons)
        /\ Len(LastActivity.buttons) <= Len(b_config.buttons_raw)
        /\ \A i \in 1..Len(LastActivity.buttons) :
              /\ LastActivity.buttons[i] = b_config.buttons_raw[i].label
              /\ LastActivity.button_urls[i] = b_config.buttons_raw[i].link
        /\ "buttons" \in LastActivity.keys =>
              \/ Len(LastActivity.buttons) = 2
              \/ Len(LastActivity.buttons) = Len(b_config.buttons_raw)

\* a payload was built from a list of three buttons
C28_Witness ==
    /\ b_ret.kind = "ok"
    /\ Len(b_config.buttons_raw) = 3
    /\ LastActivity.buttons = <<"Source", "Website">>
    /\ Len(LastActivity.button_urls) = 2

\* C29: no call of build_presence_payload raises.
C29_NeverRaises == b_ret.kind # "raise"

\* C30 as stated: two calls of build_presence_payload in a row, with the
\* same configuration, start_ts and asset map, that both return a payload
\* return the same one.
C30_SameInputsSameOutput ==
    (b_prev.kind = "ok" /\ b_ret.kind = "ok") => b_prev.value = b_ret.value

\* C30: two such calls return the same payload in every mode but custom; in
\* mode custom the two payloads are the same but for timestamps.start, which
\* is not lower in the later one.
C30_SameOutputButCustomStart ==
    (b_prev.kind = "ok" /\ b_ret.kind = "ok") =>
        IF b_config.start_time_mode # "custom"
        THEN b_prev.value = b_ret.value
        ELSE LET p == b_prev.value.activities[1]
             IN  /\ [p EXCEPT !.start = 0] = [LastActivity EXCEPT !.start = 0]
                 /\ p.start <= LastActivity.start
                 /\ b_prev.value.status = b_ret.value.status
                 /\ b_prev.value.op = b_ret.value.op

\* two calls in mode custom, a second apart, have returned payloads that
\* differ
C30_Witness ==
    /\ b_prev.kind = "ok"
    /\ b_ret.kind = "ok"
    /\ b_config.start_time_mode = "custom"
    /\ b_prev.value.activities[1].start + 1000 = LastActivity.start

----------------------------------------------------------------------------
(* Writers of the shared state *)

\* C31: in every interleaving of the three tasks, the heartbeat task and the
\* config-reload task leave session id, sequence and resume endpoint alone;
\* the heartbeat task changes the acknowledged flag only to false; the
\* config-reload task does not change it; the dispatch loop changes it only
\* to true, and only in the step that handles a HeartbeatAck
C31_SingleWriters ==
    [][ LET HeartbeatStep == HeartbeatTick
            ReloadStep == \E d \in BaseDelays : ConfigReloadTick(d)
            DispatchStep ==
                pc = "listen" /\ pc' # "stopping" /\ ~HeartbeatStep /\ ~ReloadStep
        IN  /\ HeartbeatStep \/ ReloadStep
               => UNCHANGED <<session_id, sequence, resume_url>>
            /\ HeartbeatStep /\ heartbeat_acked' # heartbeat_acked
               => heartbeat_acked' = FALSE
            /\ ReloadStep => UNCHANGED heartbeat_acked
            /\ DispatchStep /\ heartbeat_acked' # heartbeat_acked
               => /\ heartbeat_acked' = TRUE
                  /\ \E raw \in FramesByOp[HEARTBEAT_ACK] : ListenHeartbeatAck(raw) ]_vars

\* the heartbeat task has marked its heartbeat unacknowledged on an
\* established attempt whose continuity the dispatch loop has stored
C31_Witness ==
    /\ pc = "listen"
    /\ established
    /\ session_id # None /\ sequence # NoSeq /\ resume_url # None
    /\ ~heartbeat_acked
    /\ out = <<HeartbeatMessage(sequence)>>

----------------------------------------------------------------------------
(* Icon lookup *)

\* C32: with a real application id the icon lookup is made exactly once on
\* every opened transport, before the first frame is read (and not at all
\* without one); whatever the lookup returns, the attempt goes on to wait for
\* the first frame with the transport and the run flag as they were; and a
\* cached non-empty lookup is never replaced by an empty one
C32_LookupOncePerAttempt ==
    [][ /\ pc = "hello" /\ pc' \in {"listen", "after"}
           => refreshes = (IF RealAppId(app_id) THEN 1 ELSE 0)
        /\ pc' \in {"listen", "invalid_wait"} => refreshes' = refreshes
        /\ refreshes' # refreshes /\ refreshes' # 0 => pc = "refresh"
        /\ pc = "refresh" /\ pc' # "stopping"
           => pc' = "hello" /\ ws' = "open" /\ running' /\ ended' = "none"
        /\ asset_map # <<>> => asset_map' # <<>> ]_vars

\* the lookup of this attempt came back empty, the attempt waits for its
\* first frame and the lookup cached by an earlier attempt is still there
C32_Witness ==
    /\ pc = "hello"
    /\ ws = "open"
    /\ RealAppId(app_id)
    /\ refreshes = 1
    /\ lookup = "empty"
    /\ asset_map # <<>>

\* C33: the heartbeat task sends a heartbeat only on an attempt on which
\* READY or RESUMED has been received
C33_NoHeartbeatBeforeEstablished ==
    [][HeartbeatTick /\ out' # <<>> => established]_vars

----------------------------------------------------------------------------
(* Life of the two tasks *)

\* C34: however the dispatch loop of an attempt ends, the heartbeat task and
\* the config-reload task are gone when run() goes on; no task exists while
\* run() is outside the dispatch loop, in particular when a transport is
\* opened; the tasks are created only when none exists; and a task sends
\* only on the open transport of the attempt that created it
C34_TasksEndWithAttempt ==
    [][ LET NoTask == hb_pc = "none" /\ rl_pc = "none"
            NoTaskAfter == hb_pc' = "none" /\ rl_pc' = "none"
        IN  /\ pc \in {"listen", "invalid_wait"} /\ pc' \in {"after", "done"}
               => NoTaskAfter
            /\ pc' \in {"connect", "refresh", "hello", "after", "sleep", "done"}
               => NoTaskAfter
            /\ ws # "open" /\ ws' = "open" => NoTask /\ NoTaskAfter
            /\ hb_pc = "none" /\ hb_pc' # "none"
               => NoTask /\ pc = "hello" /\ hb_pc' = "sleep" /\ rl_pc' = "sleep"
            /\ rl_pc = "none" /\ rl_pc' # "none" => hb_pc = "none" /\ hb_pc' # "none"
            /\ (HeartbeatTick \/ \E d \in BaseDelays : ConfigReloadTick(d))
               /\ out' # <<>>
               => ws = "open" /\ pc \in {"listen", "invalid_wait"} ]_vars

\* an attempt whose dispatch loop ran (it stored a session) has ended, and
\* the transport of a later attempt is open with no task left
C34_Witness ==
    /\ pc = "hello"
    /\ ws = "open"
    /\ session_id # None
    /\ hb_pc = "none" /\ rl_pc = "none"

----------------------------------------------------------------------------
(* Stopping *)

\* C35: once stop() has been called the run flag is false and stays false,
\* no transport is opened any more, and run() does nothing but leave its
\* loop, whether the stop came during a retry sleep or during an attempt
C35_StopIsFinal ==
    [][ stop_saved'
        => /\ ~running'
           /\ pc' \in {"stopping", "done"}
           /\ ws' = "open" => ws = "open"
           /\ stop_saved => pc' = "done" /\ ws' # "open" ]_vars

\* stop() was called after an attempt had stored a session and at least one
\* retry had been counted, and run() has returned
C35_Witness ==
    /\ stop_saved
    /\ pc = "done"
    /\ ~running
    /\ ws = "closed"
    /\ session_id # None
    /\ reconnect_count > 0

\* C36: a Presence Update (op 3) is sent only on an attempt on which READY
\* or RESUMED has been received, the step that receives it included
C36_NoPresenceBeforeEstablished ==
    [][PresenceCount(out') > 0 => established']_vars

\* C37: whenever a resume endpoint is stored, a session id and a sequence
\* are stored with it, so that the attempt connecting to the resume endpoint
\* resumes
C37_EndpointImpliesSession ==
    resume_url # None => session_id # None /\ sequence # NoSeq

----------------------------------------------------------------------------
(* A transport that never opens *)

\* C38: with a budget of N > 0 attempts and a transport that has never
\* opened (ws is "none": no websockets.connect has succeeded), every failed connect is counted; the 1st to the N-th failure are
\* followed by a retry sleep and a new connect, the (N+1)-th makes run() clear
\* the run flag and return without sleeping, and run() does nothing after that
C38_ExactlyNRetries ==
    [][ ws' = "none" /\ max_reconnect > 0
        => /\ pc = "connect" => pc' \in {"after", "stopping"}
           /\ pc = "after" /\ pc' # "stopping"
              => /\ reconnect_count' = reconnect_count + 1
                 /\ IF reconnect_count' <= max_reconnect
                    THEN pc' = "sleep" /\ running'
                    ELSE pc' = "done" /\ ~running' /\ wait' = wait
           /\ pc = "sleep" => pc' \in {"connect", "stopping"}
           /\ pc' = "connect" => reconnect_count' <= max_reconnect
           /\ pc = "done" => pc' = "done" ]_vars

\* with a budget of 2, the third failure in a row has ended run()
C38_Witness ==
    /\ ws = "none"
    /\ max_reconnect = 2
    /\ reconnect_count = 3
    /\ pc = "done"
    /\ ~running
    /\ ~stop_saved

----------------------------------------------------------------------------
(* Reloading the configuration *)

\* C39: a reload() that fails leaves the values the configuration shows as
\* they were before the call
C39_FailedReloadKeepsValues ==
    [][cf_changed /\ ~cf_changed' /\ cf_ret' = "false"
       => Visible(cf_raw') = Visible(cf_raw)]_vars
====
